---- MODULE Spec2Model ----
(***************************************************************************)
(* Orchestration core of calm-meridian-studio: the idea bank with its      *)
(* round-robin category selector (backend/ideas/idea_bank.py), the slot    *)
(* scheduler (backend/ideas/auto_publisher.py) and the job store with its  *)
(* executor (backend/main.py).                                             *)
(*                                                                         *)
(* The specifications share the module's variables:                        *)
(*   SpecBank   the IdeaBank object under pick_idea / mark_used /          *)
(*              generate_ideas, started from any small persisted store;    *)
(*   SpecSched  the auto-publish scheduler loop over the idea bank, the    *)
(*              done-set file and the calendar, with process restarts;     *)
(*   SpecJobs   the long-form job store, its API handlers, the background  *)
(*              executor and the startup recovery;                         *)
(*   SpecShorts, SpecProgress, SpecExecutor  the shorts job store, the     *)
(*              progress callbacks and the executor of the job stores;     *)
(*   SpecTimed  the scheduler loop against the wall clock;                 *)
(*   SpecBuffer, SpecCursors  the buffer scheduler and the rotation        *)
(*              cursors of backend/ideas/long_form_publisher.py;           *)
(*   SpecBus    the event bus of main.py and its observers;                *)
(*   SpecDurable  the writes of the three stores and their read-backs.     *)
(*   SpecSlots, SpecDoneSet  the upcoming publish slots and the done-set   *)
(*              of auto_publisher.py over their inputs;                    *)
(*   SpecAttempts, SpecPending  the scheduler and the executor under the   *)
(*              fairness their loops provide;                              *)
(*   SpecHealth, SpecFanout  the health check of ceo/agent.py and the      *)
(*              fan-out of update_job from the worker thread.              *)
(***************************************************************************)
EXTENDS Integers, Sequences, FiniteSets, TLC

\* ---------------------------------------------------------------- bounds
\* Number of categories in DOMAIN_REGISTRY taken into the model.
NumDomains == 2
\* Largest number of ideas the store holds in the model.
MaxIdeas == 3
\* Largest number of ideas the store holds in the scheduler model.
SchedIdeas == 2
\* Ideas already in ideas_bank.json when the scheduler model starts.
StoredAtStart == 1
\* Steps the clock takes in the model, through the minutes of Minutes day
\* after day.
MaxTicks == 4
\* Process restarts taken into the model.
MaxRestarts == 1
\* Jobs ever created in the job-store model.
MaxJobs == 2
\* Jobs ever created in the shorts job-store model.
MaxShorts == 2
\* Longest time, in minutes, the work of one poll takes in the model.
MaxWork == 20
\* Generation cycles of the buffer scheduler taken into the model.
MaxGenerated == 2
\* Largest number of tracks in a pool of the music library.
MaxTracks == 1
\* Capacity of an observer's queue in the model (asyncio.Queue(maxsize=100)
\* in the source).
QueueMaxsize == 2
\* Largest number of _mark_slot_done calls made on a stored done-set.
MaxMarks == 3
\* Largest number of slots asked of get_next_publish_slots (7 and 28 in the
\* source).
MaxCount == 3

VARIABLES
    \* ideas_bank.json
    ideas,                  \* data["ideas"]: sequence of [domain, status]
    shorts_domain_index,    \* data["shorts_domain_index"] (absent reads as 0)
    \* a generate_ideas call between its _load_data and its _save_data
    genSnap,                \* its local `data`, or NoSnap
    \* history of the IdeaBank calls
    inflight,               \* id of the idea whose attempt is running, 0 if none
    lastOp,                 \* name of the last IdeaBank call
    picked,                 \* what the last pick_idea returned (0 is None)
    hist                    \* the latest consecutive successful picks, each
                            \* with the cursor, the stock and the indices read

VARIABLES
    \* autopublish_state.json
    enabled,                \* state["enabled"]
    published_slots,        \* state["published_slots"], the done-set
    \* content_calendar.json
    calendar,               \* data["entries"]: sequence of [slot, status]
    \* the wall clock and the _autopublish_scheduler task
    clock,                  \* [day, min]: current local date and minute of day
    now,                    \* datetime.now(EST) as the running poll read it
    pc,                     \* "sleep" | "backfill" | "slots" | "job"
    slotIdx,                \* position of the poll's loop in PUBLISH_TIMES
    attempt,                \* the generate_and_publish call in flight
    \* history of the scheduler
    started,                \* per slot key: generate_and_publish calls made
    skippedDone,            \* slot keys a check in the window found done
    noItem,                 \* slot keys a check found open and got no idea for
    restarts                \* process restarts so far

bankVars == <<ideas, shorts_domain_index, genSnap, inflight, lastOp, picked, hist>>

schedVars == <<enabled, published_slots, calendar, clock, now, pc, slotIdx,
               attempt, started, skippedDone, noItem, restarts>>

VARIABLES
    \* the long-form job store and its executor
    jobs,                   \* the module-level dict `jobs`
    jobsFile,               \* jobs_store.json
    up,                     \* the process is running (lifespan has started it)
    nextId,                 \* next unused job id
    tasks,                  \* background tasks queued or running
    resp,                   \* the last API request on a job and its answer
    skipped                 \* jobs an executor run found cancelled and left

jobVars == <<jobs, jobsFile, up, nextId, tasks, resp, skipped>>

VARIABLES
    \* the shorts job store and its executor
    shorts_jobs,            \* the module-level dict `shorts_jobs`
    shortsFile,             \* shorts_jobs_store.json
    shortsNext,             \* next unused shorts job id
    shortsTasks             \* background tasks queued or running

shortsVars == <<shorts_jobs, shortsFile, shortsNext, shortsTasks>>

VARIABLES
    \* the _autopublish_scheduler task against the wall clock
    timer                   \* minutes until its sleep or its poll's work ends

timedVars == <<timer>>

VARIABLES
    \* longform_publish_state.json
    lf_enabled,             \* state["enabled"]
    last_generated,         \* state["last_generated"]: a day, or NoStamp
    \* automation_state.json
    automation,             \* [domain_index, duration_toggle, music_index,
                            \*  total_generated]
    \* music/music_library.json
    library,                \* number of tracks in library["short"], ["long"]
    \* the publishing collaborator
    committed,              \* dates that hold a scheduled video
    \* the buffer scheduler
    lfPc,                   \* "idle" | "generating"
    lfPoll,                 \* what the last check_and_publish read and computed
    reads                   \* index reads of the last generate_one_video or
                            \* generate_batch call: [coll, idx, size]

bufferVars == <<lf_enabled, last_generated, automation, library, committed,
                lfPc, lfPoll, reads>>

VARIABLES
    \* the event bus
    sse_subscribers,        \* observers whose queue is in the list
    queue,                  \* per observer: the notifications not yet sent
    stream                  \* per observer: how far its event_generator is,
                            \* the job list it has put together from the
                            \* events sent, whether a notification was dropped

busVars == <<sse_subscribers, queue, stream>>

VARIABLES
    \* the files while they are written and read back
    writing,                \* the open(path, "w") ... json.dump in progress
    interrupted,            \* the write the last crash cut short
    seen                    \* what a load made of a file that a write had open

diskVars == <<writing, interrupted, seen>>

VARIABLES
    \* calls whose answer is kept for inspection
    schedule,               \* the last get_next_publish_slots call: its
                            \* count, the now it read, the slots returned
    recorded,               \* every key given to _mark_slot_done, in order
    health,                 \* report["checks"]["longform_pipeline"] of the
                            \* last health check
    order,                  \* the list sse_subscribers in its order
    fanout                  \* the loop of update_job over sse_subscribers
                            \* that runs on a worker thread

auxVars == <<schedule, recorded, health, order, fanout>>

extVars == <<bufferVars, busVars, diskVars, auxVars>>

vars == <<bankVars, schedVars, jobVars, shortsVars, timedVars, extVars>>

\* ------------------------------------------------- the subsystems at rest
NoSnap == [loaded |-> FALSE]

NoAttempt == [running |-> FALSE]

NoJob == [status |-> "none"]

NoResp == [op |-> "none"]

JobIds == 1..MaxJobs

\* PUBLISH_TIMES = [(7, 0), (21, 30)], as minutes of the day.
PUBLISH_TIMES == <<7 * 60 + 0, 21 * 60 + 30>>

\* window_start = slot_time - timedelta(minutes=15)
WindowBefore == 15
\* window_end = slot_time + timedelta(minutes=30)
WindowAfter == 30
\* state["published_slots"][-60:]
KeepSlots == 60
\* if stats["available"] < 10
LowStock == 10

\* The minutes of the day the clock passes through in the model: just
\* outside and on both edges of the first window, and the second slot.
Minutes == <<404, 405, 450, 451, 1290>>

Days == 0..(MaxTicks \div Len(Minutes))

\* _slot_key: strftime("%Y-%m-%d_%H:%M") of the slot time, one key per
\* (date, hour, minute).
SlotKey(day, minute) == <<day, minute \div 60, minute % 60>>

SlotKeys == {SlotKey(d, PUBLISH_TIMES[i]) : d \in Days, i \in 1..Len(PUBLISH_TIMES)}

\* The scheduler of a fresh installation: autopublish_state.json absent.
SchedIdle ==
    /\ enabled = FALSE
    /\ published_slots = <<>>
    /\ calendar = <<>>
    /\ clock = [day |-> 0, min |-> Minutes[1]]
    /\ now = [day |-> 0, min |-> Minutes[1]]
    /\ pc = "sleep"
    /\ slotIdx = 1
    /\ attempt = NoAttempt
    /\ started = [k \in SlotKeys |-> 0]
    /\ skippedDone = {}
    /\ noItem = {}
    /\ restarts = 0
    /\ timer = 0

\* The bank's call history before any call.
InitHistory ==
    /\ inflight = 0
    /\ lastOp = "init"
    /\ picked = 0
    /\ hist = <<>>

\* The job store after a first start on an empty jobs_store.json.
JobsIdle ==
    /\ jobs = [j \in JobIds |-> NoJob]
    /\ jobsFile = [j \in JobIds |-> NoJob]
    /\ up = TRUE
    /\ nextId = 1
    /\ tasks = {}
    /\ resp = NoResp
    /\ skipped = {}

ShortIds == 1..MaxShorts

\* The shorts job store after a first start: shorts_jobs_store.json absent.
ShortsIdle ==
    /\ shorts_jobs = [j \in ShortIds |-> NoJob]
    /\ shortsFile = [j \in ShortIds |-> NoJob]
    /\ shortsNext = 1
    /\ shortsTasks = {}

\* state["last_generated"] = None
NoStamp == [set |-> FALSE]

NoPoll == [checked |-> FALSE]

\* The buffer scheduler before its first poll: the defaults of _load_state
\* and of load_automation_state, no music library file, nothing committed.
BufferIdle ==
    /\ lf_enabled = TRUE
    /\ last_generated = NoStamp
    /\ automation = [domain_index |-> 0, duration_toggle |-> 0,
                     music_index |-> 0, total_generated |-> 0]
    /\ library = [short |-> 0, long |-> 0]
    /\ committed = {}
    /\ lfPc = "idle"
    /\ lfPoll = NoPoll
    /\ reads = {}

\* sse_subscribers: List[asyncio.Queue] = []
Observers == {1, 2}

NoStream == [state |-> "none"]

BusIdle ==
    /\ sse_subscribers = {}
    /\ queue = [o \in Observers |-> <<>>]
    /\ stream = [o \in Observers |-> NoStream]

NoWrite == [file |-> "none"]

\* No write is in progress and none was cut short.
DiskIdle ==
    /\ writing = NoWrite
    /\ interrupted = NoWrite
    /\ seen = NoWrite

NoCall == [called |-> FALSE]

NoFanout == [running |-> FALSE]

AuxIdle ==
    /\ schedule = NoCall
    /\ recorded = <<>>
    /\ health = NoCall
    /\ order = <<>>
    /\ fanout = NoFanout

ExtIdle ==
    /\ BufferIdle
    /\ BusIdle
    /\ DiskIdle
    /\ AuxIdle

\* ------------------------------------------------------------ idea bank
\* Category names are 1..NumDomains in registry order; 0 names a category
\* that an earlier deployment wrote to ideas_bank.json and that is no
\* longer a key of DOMAIN_REGISTRY.
LegacyDomain == 0

domain_names == [i \in 1..NumDomains |-> i]

num_domains == Len(domain_names)

Statuses == {"available", "scheduled", "used"}

\* available = [i for i in data["ideas"] if i["status"] == "available"]
Available(data) == {i \in 1..Len(data) : data[i].status = "available"}

\* Plain random selection over all available ideas.
Candidates_AnyCategory(data, idx) == Available(data)

\* candidates = [i for i in available if i["domain"] == target_domain]
Candidates(data, idx) ==
    {i \in Available(data) : data[i].domain = domain_names[idx + 1]}

\* data["shorts_domain_index"] = (idx + 1) % num_domains
NextIndex_Stays(idx) == idx % num_domains

NextIndex(idx) == (idx + 1) % num_domains

\* The loop cut down to its first iteration: no skip over an empty category.
ScanFrom_CursorOnly(data, domain_index, offset) ==
    IF Candidates(data, domain_index % num_domains) # {}
    THEN domain_index % num_domains ELSE -1

\* for offset in range(num_domains): the index of the first category, from
\* domain_index on, that has a candidate; -1 when the loop falls through.
RECURSIVE ScanFrom(_, _, _)
ScanFrom(data, domain_index, offset) ==
    IF offset >= num_domains THEN -1
    ELSE LET idx == (domain_index + offset) % num_domains
         IN  IF Candidates(data, idx) # {} THEN idx
             ELSE ScanFrom(data, domain_index, offset + 1)

\* The indices idx the loop computes and reads domain_names at, up to the
\* category it stops on.
RECURSIVE ScanReads(_, _, _)
ScanReads(data, domain_index, offset) ==
    IF offset >= num_domains THEN {}
    ELSE LET idx == (domain_index + offset) % num_domains
         IN  IF Candidates(data, idx) # {} THEN {idx}
             ELSE {idx} \cup ScanReads(data, domain_index, offset + 1)

\* The fallback branch after the loop: any available idea, cursor + 1.
Fallback_ReturnsNone(data, domain_index) ==
    {[picked |-> 0, ideas |-> data, index |-> domain_index]}

Fallback(data, domain_index) ==
    {[picked |-> i,
      ideas  |-> [data EXCEPT ![i].status = "scheduled"],
      index  |-> NextIndex(domain_index)] : i \in Available(data)}

\* pick_idea: the set of outcomes random.choice allows, each the returned
\* idea (0 for None) with the document that was saved.
pick_idea(data, domain_index) ==
    IF Available(data) = {}
    THEN {[picked |-> 0, ideas |-> data, index |-> domain_index]}
    ELSE LET idx == ScanFrom(data, domain_index, 0)
         IN  IF idx # -1
             THEN {[picked |-> i,
                    ideas  |-> [data EXCEPT ![i].status = "scheduled"],
                    index  |-> NextIndex(idx)] : i \in Candidates(data, idx)}
             ELSE Fallback(data, domain_index)

\* mark_used: the first idea with that id becomes used, whatever it was.
mark_used(data, id) ==
    IF id \in 1..Len(data) THEN [data EXCEPT ![id].status = "used"] ELSE data

\* The ideas one generate_ideas call may append: every new idea is
\* available and its domain is forced into the registry.
RECURSIVE NewIdeas(_)
NewIdeas(n) ==
    IF n <= 0 THEN {<<>>}
    ELSE NewIdeas(n - 1) \cup
         {Append(s, [domain |-> d, status |-> "available"]) :
              s \in {t \in NewIdeas(n - 1) : Len(t) = n - 1},
              d \in 1..NumDomains}

\* Stores an earlier run may have left on disk: available ideas of any
\* category, the removed one included.
RECURSIVE StoredIdeas(_)
StoredIdeas(n) ==
    IF n <= 0 THEN {<<>>}
    ELSE StoredIdeas(n - 1) \cup
         {Append(s, [domain |-> d, status |-> "available"]) :
              s \in {t \in StoredIdeas(n - 1) : Len(t) = n - 1},
              d \in {LegacyDomain} \cup (1..NumDomains)}

\* Categories (by index) that hold an available idea.
NonEmpty(data) ==
    {idx \in 0..(NumDomains - 1) :
         \E i \in 1..Len(data) :
             data[i].status = "available" /\ data[i].domain = idx + 1}

CatIndex(d) == d - 1

Remember(h, rec) ==
    LET a == Append(h, rec)
    IN  IF Len(a) > num_domains THEN Tail(a) ELSE a

InitBank ==
    /\ ideas \in StoredIdeas(MaxIdeas)
    /\ shorts_domain_index \in 0..NumDomains
    /\ genSnap = NoSnap
    /\ InitHistory
    /\ SchedIdle
    /\ JobsIdle
    /\ ShortsIdle
    /\ ExtIdle

\* A caller picks an idea; an attempt still running for an earlier pick has
\* ended in an error (its idea stays scheduled).
PickIdea ==
    \E r \in pick_idea(ideas, shorts_domain_index) :
        /\ ideas' = r.ideas
        /\ shorts_domain_index' = r.index
        /\ picked' = r.picked
        /\ inflight' = IF r.picked # 0 THEN r.picked ELSE inflight
        /\ lastOp' = "pick"
        /\ hist' = IF r.picked = 0 THEN hist
                   ELSE Remember(hist, [c0  |-> shorts_domain_index,
                                        ne  |-> NonEmpty(ideas),
                                        cat |-> CatIndex(ideas[r.picked].domain),
                                        reads |-> ScanReads(ideas,
                                                     shorts_domain_index, 0)])
        /\ UNCHANGED genSnap
        /\ UNCHANGED <<schedVars, jobVars, shortsVars, timedVars, extVars>>

\* generate_and_publish reaches mark_used for the idea it was given.
MarkUsed ==
    /\ inflight # 0
    /\ ideas' = mark_used(ideas, inflight)
    /\ inflight' = 0
    /\ lastOp' = "mark_used"
    /\ hist' = <<>>
    /\ UNCHANGED <<shorts_domain_index, genSnap, picked>>
    /\ UNCHANGED <<schedVars, jobVars, shortsVars, timedVars, extVars>>

\* generate_ideas, line 121: data = _load_data()
GenLoad ==
    /\ ~genSnap.loaded
    /\ genSnap' = [loaded |-> TRUE, ideas |-> ideas, index |-> shorts_domain_index]
    /\ lastOp' = "gen_load"
    /\ UNCHANGED <<ideas, shorts_domain_index, inflight, picked, hist>>
    /\ UNCHANGED <<schedVars, jobVars, shortsVars, timedVars, extVars>>

\* generate_ideas, lines 196-210: the batches appended to the local data,
\* then _save_data(data) rewrites the whole document.
GenSave ==
    /\ genSnap.loaded
    /\ \E new \in NewIdeas(MaxIdeas - Len(genSnap.ideas)) :
           ideas' = genSnap.ideas \o new
    /\ shorts_domain_index' = genSnap.index
    /\ genSnap' = NoSnap
    /\ lastOp' = "gen_save"
    /\ hist' = <<>>
    /\ UNCHANGED <<inflight, picked>>
    /\ UNCHANGED <<schedVars, jobVars, shortsVars, timedVars, extVars>>

NextBank ==
    \/ PickIdea
    \/ MarkUsed
    \/ GenLoad
    \/ GenSave

\* ------------------------------------------------------- slot scheduler
\* _is_slot_done without the done-set lookup.
IsSlotDone_Never(slots, key) == FALSE

\* _is_slot_done: key in state.get("published_slots", [])
IsSlotDone(slots, key) == \E i \in 1..Len(slots) : slots[i] = key

\* A list cut to its first entries.
LastN_KeepsFirst(s, n) == IF Len(s) <= n THEN s ELSE SubSeq(s, 1, n)

LastN(s, n) == IF Len(s) <= n THEN s ELSE SubSeq(s, Len(s) - n + 1, Len(s))

\* _mark_slot_done: append, keep the last 60, save.
MarkSlotDone(slots, key) == LastN(Append(slots, key), KeepSlots)

\* window_start <= now <= window_end, for today's instance of the slot
InWindow(t, minute) ==
    /\ minute - WindowBefore <= t.min
    /\ t.min <= minute + WindowAfter

\* upload_video has no publish_at parameter, so the call made by
\* generate_and_publish (publish_at=...) raises TypeError.
UploadOutcomes == {"raises"}

\* A poll that never finds the stock low.
NeedsBackfill_Never(data) == FALSE

\* if stats["available"] < 10
NeedsBackfill(data) == Cardinality(Available(data)) < LowStock

\* A check that closes the slot when it got no idea.
AfterNoIdea_MarksDone(slots, key) == LastN(Append(slots, key), KeepSlots)

\* `if idea:` with idea None: nothing is done for the slot, the done-set
\* stays as it is.
AfterNoIdea(slots, key) == slots

\* A failure that leaves the slot open.
MarkFailedSlotDone_Skips(slots, key) == slots

\* The except branch of run_scheduled_publish, line 148.
MarkFailedSlotDone(slots, key) == MarkSlotDone(slots, key)

\* The calendar entries of a failed attempt: update_entry(status="failed",
\* error=str(e)) on the attempt's entry (generate_and_publish, line 223; no
\* entry yet when entry is 0), then add_entry with status "failed" and
\* error str(e) (run_scheduled_publish, lines 138-147).
FailedEntries(cal, entry, key, e) ==
    Append(IF entry = 0 THEN cal
           ELSE [cal EXCEPT ![entry].status = "failed", ![entry].error = e],
           [slot |-> key, status |-> "failed", error |-> e])

InitSched ==
    /\ ideas \in StoredIdeas(StoredAtStart)
    /\ shorts_domain_index = 0
    /\ genSnap = NoSnap
    /\ InitHistory
    /\ SchedIdle
    /\ JobsIdle
    /\ ShortsIdle
    /\ ExtIdle

\* Time passes.
Tick ==
    /\ \E i \in 1..Len(Minutes) :
           /\ Minutes[i] = clock.min
           /\ clock.day * Len(Minutes) + i - 1 < MaxTicks
           /\ IF i < Len(Minutes)
              THEN clock' = [clock EXCEPT !.min = Minutes[i + 1]]
              ELSE clock' = [day |-> clock.day + 1, min |-> Minutes[1]]
    /\ UNCHANGED <<enabled, published_slots, calendar, now, pc, slotIdx,
                   attempt, started, skippedDone, noItem, restarts>>
    /\ UNCHANGED bankVars
    /\ UNCHANGED <<jobVars, shortsVars, timedVars, extVars>>

\* AutoPublisher.toggle
Toggle ==
    /\ enabled' = ~enabled
    /\ UNCHANGED <<published_slots, calendar, clock, now, pc, slotIdx,
                   attempt, started, skippedDone, noItem, restarts>>
    /\ UNCHANGED bankVars
    /\ UNCHANGED <<jobVars, shortsVars, timedVars, extVars>>

\* The loop of run_scheduled_publish moves to the next publish time, or
\* the poll returns and the scheduler sleeps.
AdvanceSlot ==
    IF slotIdx < Len(PUBLISH_TIMES)
    THEN pc' = "slots" /\ slotIdx' = slotIdx + 1
    ELSE pc' = "sleep" /\ slotIdx' = 1

\* run_scheduled_publish, lines 107-117: the enabled check, now, the
\* low-stock check and the call of generate_ideas, up to its _load_data
\* (the call raises before loading anything when the client cannot be
\* built).
PollStart ==
    /\ pc = "sleep"
    /\ IF ~enabled
       THEN UNCHANGED <<now, pc, slotIdx, genSnap>>
       ELSE /\ now' = clock
            /\ slotIdx' = 1
            /\ IF NeedsBackfill(ideas)
               THEN /\ pc' = "backfill"
                    /\ \E client_ok \in BOOLEAN :
                           genSnap' = IF client_ok
                                      THEN [loaded |-> TRUE, ideas |-> ideas,
                                            index |-> shorts_domain_index]
                                      ELSE NoSnap
               ELSE pc' = "slots" /\ UNCHANGED genSnap
    /\ UNCHANGED <<enabled, published_slots, calendar, clock, attempt,
                   started, skippedDone, noItem, restarts>>
    /\ UNCHANGED <<ideas, shorts_domain_index, inflight, lastOp, picked, hist>>
    /\ UNCHANGED <<jobVars, shortsVars, timedVars, extVars>>

\* generate_ideas ends inside the poll: its document is saved, or the call
\* raised before the load and run_scheduled_publish, lines 118-119, goes on.
BackfillDone ==
    /\ pc = "backfill"
    /\ IF genSnap.loaded
       THEN /\ \E new \in NewIdeas(SchedIdeas - Len(genSnap.ideas)) :
                  ideas' = genSnap.ideas \o new
            /\ shorts_domain_index' = genSnap.index
       ELSE UNCHANGED <<ideas, shorts_domain_index>>
    /\ genSnap' = NoSnap
    /\ pc' = "slots"
    /\ UNCHANGED <<enabled, published_slots, calendar, clock, now, slotIdx,
                   attempt, started, skippedDone, noItem, restarts>>
    /\ UNCHANGED <<inflight, lastOp, picked, hist>>
    /\ UNCHANGED <<jobVars, shortsVars, timedVars, extVars>>

\* run_scheduled_publish, lines 122-133 and 135-148 for an attempt that
\* raises at once: one iteration of the loop over PUBLISH_TIMES.
CheckSlot ==
    /\ pc = "slots"
    /\ LET minute == PUBLISH_TIMES[slotIdx]
           key == SlotKey(now.day, minute)
       IN  IF InWindow(now, minute) /\ ~IsSlotDone(published_slots, key)
           THEN \E r \in pick_idea(ideas, shorts_domain_index) :
                  /\ ideas' = r.ideas
                  /\ shorts_domain_index' = r.index
                  /\ UNCHANGED skippedDone
                  /\ IF r.picked = 0
                     THEN /\ AdvanceSlot
                          /\ published_slots' = AfterNoIdea(published_slots, key)
                          /\ noItem' = noItem \cup {key}
                          /\ UNCHANGED <<calendar, attempt, started>>
                     ELSE /\ started' = [started EXCEPT ![key] = @ + 1]
                          /\ UNCHANGED noItem
                          /\ IF ideas[r.picked].domain = LegacyDomain
                             THEN \* ValueError("Unknown domain"), line 159
                                  /\ calendar' = FailedEntries(calendar, 0, key,
                                                               "Unknown domain")
                                  /\ published_slots' =
                                         MarkFailedSlotDone(published_slots, key)
                                  /\ AdvanceSlot
                                  /\ UNCHANGED attempt
                             ELSE /\ calendar' = Append(calendar,
                                         [slot |-> key, status |-> "generating",
                                          error |-> "none"])
                                  /\ attempt' = [running |-> TRUE, idea |-> r.picked,
                                                 slot |-> key,
                                                 entry |-> Len(calendar) + 1]
                                  /\ pc' = "job"
                                  /\ UNCHANGED <<published_slots, slotIdx>>
           ELSE /\ AdvanceSlot
                /\ skippedDone' = IF InWindow(now, minute)
                                  THEN skippedDone \cup {key} ELSE skippedDone
                /\ UNCHANGED <<ideas, shorts_domain_index, calendar,
                               published_slots, attempt, started, noItem>>
    /\ UNCHANGED <<enabled, clock, now, restarts>>
    /\ UNCHANGED <<genSnap, inflight, lastOp, picked, hist>>
    /\ UNCHANGED <<jobVars, shortsVars, timedVars, extVars>>

\* generate_and_publish, lines 189-224, then lines 134-148 of the caller:
\* the generator returned, the upload was tried, the idea marked used.
AttemptGenerated ==
    /\ pc = "job"
    /\ ideas' = mark_used(ideas, attempt.idea)
    /\ \E upload \in UploadOutcomes :
           IF upload = "raises"
           THEN \* `result` is unbound at line 211: the except branches run
                /\ calendar' = FailedEntries(calendar, attempt.entry, attempt.slot,
                                             "UnboundLocalError: result")
                /\ published_slots' = MarkFailedSlotDone(published_slots, attempt.slot)
           ELSE /\ calendar' = [calendar EXCEPT ![attempt.entry].status = upload]
                /\ published_slots' = MarkSlotDone(published_slots, attempt.slot)
    /\ attempt' = NoAttempt
    /\ AdvanceSlot
    /\ UNCHANGED <<enabled, clock, now, started, skippedDone, noItem, restarts>>
    /\ UNCHANGED <<shorts_domain_index, genSnap, inflight, lastOp, picked, hist>>
    /\ UNCHANGED <<jobVars, shortsVars, timedVars, extVars>>

\* generate_and_publish, lines 222-224, then lines 135-148: the generator
\* raised.
AttemptRaises ==
    /\ pc = "job"
    /\ calendar' = FailedEntries(calendar, attempt.entry, attempt.slot,
                                 "generator error")
    /\ published_slots' = MarkFailedSlotDone(published_slots, attempt.slot)
    /\ attempt' = NoAttempt
    /\ AdvanceSlot
    /\ UNCHANGED <<enabled, clock, now, started, skippedDone, noItem, restarts>>
    /\ UNCHANGED bankVars
    /\ UNCHANGED <<jobVars, shortsVars, timedVars, extVars>>

\* The process dies and is started again: lifespan creates a new scheduler
\* task, which polls at once; whatever was in flight is gone, the files
\* stay.
RestartSched ==
    /\ restarts < MaxRestarts
    /\ restarts' = restarts + 1
    /\ pc' = "sleep"
    /\ slotIdx' = 1
    /\ attempt' = NoAttempt
    /\ genSnap' = NoSnap
    /\ UNCHANGED <<enabled, published_slots, calendar, clock, now, started,
                   skippedDone, noItem>>
    /\ UNCHANGED <<ideas, shorts_domain_index, inflight, lastOp, picked, hist>>
    /\ UNCHANGED <<jobVars, shortsVars, timedVars, extVars>>

NextSched ==
    \/ Tick
    \/ Toggle
    \/ PollStart
    \/ BackfillDone
    \/ CheckSlot
    \/ AttemptGenerated
    \/ AttemptRaises
    \/ RestartSched

SpecSched == InitSched /\ [][NextSched]_vars


\* The slot scheduler when every generate_and_publish call that was started
\* comes to an end, by returning or by raising.
SpecAttempts ==
    InitSched /\ [][NextSched]_vars
        /\ WF_vars(AttemptGenerated \/ AttemptRaises)

SpecBank == InitBank /\ [][NextBank]_vars

\* ----------------------------------- rotation cursors and the buffer
\* if days_buffer >= 2
BufferThreshold == 2
\* if dur <= 225
ShortPoolLimit == 225

\* base_durations = [180, 300]
base_durations == <<180, 300>>

\* random.randint(5, 45): its two ends.
Variations == {5, 45}

\* Cursor values an earlier run may have left in automation_state.json:
\* inside every collection, and beyond the size of each.
SavedCursors == {0, 1, 5}

\* What _get_days_of_buffer gets from the collaborator: the committed
\* dates, no date at all (_get_scheduled_slots swallows a failed request
\* and returns the empty set), or an exception from _get_youtube_service.
Queries(dates) ==
    {[ok |-> TRUE, dates |-> dates], [ok |-> TRUE, dates |-> {}], [ok |-> FALSE]}

\* Every committed date counts, the past ones too.
get_days_of_buffer_AllDates(q, day) ==
    IF ~q.ok \/ q.dates = {} THEN 0
    ELSE (CHOOSE d \in q.dates : \A e \in q.dates : e <= d) - day

\* LongFormPublisher._get_days_of_buffer
get_days_of_buffer(q, day) ==
    IF ~q.ok THEN 0
    ELSE IF q.dates = {} THEN 0
    ELSE LET future_dates == {d \in q.dates : d >= day}
         IN  IF future_dates = {} THEN 0
             ELSE LET last_date == CHOOSE d \in future_dates :
                                       \A e \in future_dates : e <= d
                  IN  last_date - day

\* The threshold test never passes: every poll generates.
BufferAdequate_Never(days_buffer) == FALSE

BufferAdequate(days_buffer) == days_buffer >= BufferThreshold

\* The cursor itself taken as the index.
MusicIndex_Raw(cursor, size) == cursor

\* state["music_index"] % len(music_pool)
MusicIndex(cursor, size) == cursor % size

\* The state is saved as it was loaded.
Advanced_Stays(state) == state

\* lines 151-154: the three cursors and the counter, one up each.
Advanced(state) ==
    [domain_index    |-> state.domain_index + 1,
     duration_toggle |-> state.duration_toggle + 1,
     music_index     |-> state.music_index + 1,
     total_generated |-> state.total_generated + 1]

\* generate_one_video, lines 118-155: the reads through the three cursors
\* and the state it saves before the generator is called. The track is -1
\* for None (an empty pool).
generate_one_video(state, lib, variation) ==
    LET domain   == state.domain_index % num_domains
        bucket   == state.duration_toggle % Len(base_durations)
        dur      == base_durations[bucket + 1] + variation
        pool     == IF dur <= ShortPoolLimit THEN lib.short ELSE lib.long
        track    == IF pool > 0 THEN MusicIndex(state.music_index, pool) ELSE -1
    IN  [state |-> Advanced(state),
         track |-> track,
         reads |-> {[coll |-> "category", idx |-> domain, size |-> num_domains],
                    [coll |-> "duration", idx |-> bucket,
                     size |-> Len(base_durations)]}
                   \cup (IF pool > 0
                         THEN {[coll |-> "music", idx |-> track, size |-> pool]}
                         ELSE {})]

\* _get_next_publish_time: the first date from `start` on that is not taken.
NextPublishDate(taken, start) ==
    CHOOSE d \in start..(start + Cardinality(taken)) :
        /\ d \notin taken
        /\ \A e \in start..(d - 1) : e \in taken

\* generate_batch, lines 749-783: one pass of its loop, the same reads and
\* the same advance as generate_one_video.
generate_batch_item(state, lib, variation) ==
    generate_one_video(state, lib, variation)

\* ------------------------------------------------------------ event bus
\* {"event": event, "data": json.dumps(data)}: the event, the job it is
\* about (0 for none) and the record sent.
Msg(event, id, data) == [event |-> event, id |-> id, data |-> data]

\* A full queue makes room by dropping its oldest notification.
put_nowait_Evicts(q, m) ==
    IF Len(q) >= QueueMaxsize THEN Append(Tail(q), m) ELSE Append(q, m)

\* q.put_nowait(...) inside try / except asyncio.QueueFull: pass
put_nowait(q, m) ==
    IF Len(q) >= QueueMaxsize THEN q ELSE Append(q, m)

RECURSIVE PutAll(_, _)
PutAll(q, msgs) ==
    IF msgs = <<>> THEN q
    ELSE PutAll(put_nowait(q, Head(msgs)), Tail(msgs))

\* The job list of an observer that has seen no event, and of one that was
\* denied a notification: its list is followed no further.
NoView == [j \in JobIds |-> NoJob]

\* broadcast_sse, and the same loop at the end of update_job and of
\* update_shorts_job: every queue in sse_subscribers is offered each
\* notification.
broadcast_sse(msgs) ==
    /\ queue' = [o \in Observers |->
                    IF o \in sse_subscribers THEN PutAll(queue[o], msgs)
                    ELSE queue[o]]
    /\ stream' = [o \in Observers |->
                     IF o \in sse_subscribers
                        /\ Len(queue[o]) + Len(msgs) > QueueMaxsize
                     THEN [stream[o] EXCEPT !.lost = TRUE, !.view = NoView]
                     ELSE stream[o]]
    /\ UNCHANGED sse_subscribers

\* ------------------------------------------------------------ job store
\* The percentages generate_video reports, in the order it reports them
\* (scene plan, effects, SEO metadata).
ProgressPoints == <<15, 65, 98>>

InterruptedError == "Server restarted during generation"

\* The record generate_video / generate_batch insert.
NewJob(message) ==
    [status |-> "pending", progress |-> 0, message |-> message,
     created_at |-> TRUE, completed_at |-> FALSE, video_path |-> FALSE,
     error |-> "null"]

\* A task's next job, or the end of the task.
Advance(t) ==
    IF t.pos < Len(t.ids)
    THEN {[t EXCEPT !.pos = t.pos + 1, !.phase = "queued", !.stage = 0]}
    ELSE {}

\* run_generation that starts whatever record it finds.
RunGenerationSkips_Never(job) == job = NoJob

\* run_generation, lines 367-372: no job, or a cancelled one: return.
RunGenerationSkips(job) == job = NoJob \/ job.status = "cancelled"

\* cancel_job that accepts a job in any status.
CancelAllowed_Any(job) == TRUE

\* cancel_job, line 455: only pending jobs can be cancelled.
CancelAllowed(job) == job.status = "pending"

\* retry_job, line 439: only failed jobs can be retried.
RetryAllowed(job) == job.status \in {"failed"}

\* A startup that leaves the records as it read them.
Recover_Keeps(job) == job

\* lifespan, lines 133-137: a job found running is marked interrupted.
Recover(job) ==
    IF job # NoJob /\ job.status = "running"
    THEN [job EXCEPT !.status = "failed",
                     !.error = InterruptedError,
                     !.message = "Interrupted by server restart"]
    ELSE job

\* A retry that keeps the old error text.
Retried_KeepsError(job) ==
    [job EXCEPT !.status = "pending", !.progress = 0,
                !.message = "Queued for retry",
                !.completed_at = FALSE, !.video_path = FALSE]

\* retry_job, lines 442-444: the fields update_job overwrites.
Retried(job) ==
    [job EXCEPT !.status = "pending", !.progress = 0,
                !.message = "Queued for retry", !.error = "null",
                !.completed_at = FALSE, !.video_path = FALSE]

\* A success path that forgets the final update.
Completed_StaysRunning(job) == job

\* run_generation, lines 402-407: the fields of the final update.
Completed(job) ==
    [job EXCEPT !.status = "completed", !.progress = 100,
                !.message = "Video generation complete!",
                !.completed_at = TRUE, !.video_path = TRUE]

\* run_generation, line 410: status, error=str(e), message.
Failed(job, e) ==
    [job EXCEPT !.status = "failed", !.error = e,
                !.message = "Error: exception"]

\* generate_video: insert a pending job, save, queue run_generation.
GenerateVideo ==
    /\ up
    /\ nextId <= MaxJobs
    /\ jobs' = [jobs EXCEPT ![nextId] = NewJob("Queued for processing")]
    /\ jobsFile' = jobs'
    /\ tasks' = tasks \cup {[ids |-> <<nextId>>, pos |-> 1, phase |-> "queued",
                             stage |-> 0, batch |-> FALSE]}
    /\ nextId' = nextId + 1
    /\ resp' = NoResp
    /\ broadcast_sse(<<Msg("job_created", nextId, jobs'[nextId])>>)
    /\ UNCHANGED <<up, skipped>>
    /\ UNCHANGED <<bankVars, schedVars, shortsVars, timedVars, bufferVars, diskVars, auxVars>>

\* generate_batch with count 2: two pending jobs, each through the rotation
\* cursors, the cursors and the jobs saved, run_batch_jobs queued.
GenerateBatch ==
    /\ up
    /\ nextId + 1 <= MaxJobs
    /\ jobs' = [jobs EXCEPT ![nextId] = NewJob("Queued (batch)"),
                            ![nextId + 1] = NewJob("Queued (batch)")]
    /\ jobsFile' = jobs'
    /\ tasks' = tasks \cup {[ids |-> <<nextId, nextId + 1>>, pos |-> 1,
                             phase |-> "queued", stage |-> 0, batch |-> TRUE]}
    /\ nextId' = nextId + 2
    /\ resp' = NoResp
    /\ broadcast_sse(<<Msg("job_created", nextId, jobs'[nextId]),
                       Msg("job_created", nextId + 1, jobs'[nextId + 1])>>)
    /\ UNCHANGED <<up, skipped>>
    /\ \E v1 \in Variations, v2 \in Variations :
           LET first  == generate_batch_item(automation, library, v1)
               second == generate_batch_item(first.state, library, v2)
           IN  /\ automation' = second.state
               /\ reads' = first.reads \cup second.reads
    /\ UNCHANGED <<lf_enabled, last_generated, library, committed, lfPc, lfPoll>>
    /\ UNCHANGED <<bankVars, schedVars, shortsVars, timedVars, diskVars, auxVars>>

\* run_batch_jobs, lines 792-795, and run_generation, lines 367-375: the
\* task reaches its next job and either leaves it or marks it running and
\* hands the pipeline to the executor.
RunGeneration ==
    /\ up
    /\ \E t \in tasks :
        /\ t.phase = "queued"
        /\ LET j == t.ids[t.pos]
           IN  IF (t.batch /\ jobs[j] # NoJob /\ jobs[j].status = "cancelled")
                  \/ RunGenerationSkips(jobs[j])
               THEN /\ tasks' = (tasks \ {t}) \cup Advance(t)
                    /\ skipped' = IF jobs[j] # NoJob THEN skipped \cup {j} ELSE skipped
                    /\ UNCHANGED <<jobs, jobsFile>>
                    /\ UNCHANGED busVars
               ELSE /\ jobs' = [jobs EXCEPT ![j].status = "running",
                                            ![j].message = "Initializing..."]
                    /\ jobsFile' = jobs'
                    /\ tasks' = (tasks \ {t}) \cup {[t EXCEPT !.phase = "exec"]}
                    /\ UNCHANGED skipped
                    /\ broadcast_sse(<<Msg("job_update", j, jobs'[j])>>)
    /\ resp' = NoResp
    /\ UNCHANGED <<up, nextId>>
    /\ UNCHANGED <<bankVars, schedVars, shortsVars, timedVars, bufferVars, diskVars, auxVars>>

\* progress_callback, lines 386-387, called from the executor thread.
ProgressCallback ==
    /\ up
    /\ \E t \in tasks :
        /\ t.phase = "exec"
        /\ t.stage < Len(ProgressPoints)
        /\ LET j == t.ids[t.pos]
           IN  /\ jobs' = IF jobs[j] = NoJob THEN jobs
                          ELSE [jobs EXCEPT ![j].progress = ProgressPoints[t.stage + 1],
                                            ![j].message = "step"]
               /\ jobsFile' = IF jobs[j] = NoJob THEN jobsFile ELSE jobs'
               /\ tasks' = (tasks \ {t}) \cup {[t EXCEPT !.stage = t.stage + 1]}
               /\ broadcast_sse(IF jobs[j] = NoJob THEN <<>>
                                ELSE <<Msg("job_update", j, jobs'[j])>>)
    /\ resp' = NoResp
    /\ UNCHANGED <<up, nextId, skipped>>
    /\ UNCHANGED <<bankVars, schedVars, shortsVars, timedVars, bufferVars, diskVars, auxVars>>

\* run_generation, lines 400-407: the pipeline returned.
PipelineReturns ==
    /\ up
    /\ \E t \in tasks :
        /\ t.phase = "exec"
        /\ t.stage = Len(ProgressPoints)
        /\ LET j == t.ids[t.pos]
           IN  /\ jobs' = IF jobs[j] = NoJob THEN jobs
                          ELSE [jobs EXCEPT ![j] = Completed(jobs[j])]
               /\ jobsFile' = IF jobs[j] = NoJob THEN jobsFile ELSE jobs'
               /\ tasks' = (tasks \ {t}) \cup Advance(t)
               /\ broadcast_sse(IF jobs[j] = NoJob THEN <<>>
                                ELSE <<Msg("job_update", j, jobs'[j])>>)
    /\ resp' = NoResp
    /\ UNCHANGED <<up, nextId, skipped>>
    /\ UNCHANGED <<bankVars, schedVars, shortsVars, timedVars, bufferVars, diskVars, auxVars>>

\* run_generation, lines 409-410: anything between "running" and the end
\* raised.
PipelineRaises ==
    /\ up
    /\ \E t \in tasks :
        /\ t.phase = "exec"
        /\ LET j == t.ids[t.pos]
           IN  /\ jobs' = IF jobs[j] = NoJob THEN jobs
                          ELSE [jobs EXCEPT ![j] = Failed(jobs[j], "exception")]
               /\ jobsFile' = IF jobs[j] = NoJob THEN jobsFile ELSE jobs'
               /\ tasks' = (tasks \ {t}) \cup Advance(t)
               /\ broadcast_sse(IF jobs[j] = NoJob THEN <<>>
                                ELSE <<Msg("job_update", j, jobs'[j])>>)
    /\ resp' = NoResp
    /\ UNCHANGED <<up, nextId, skipped>>
    /\ UNCHANGED <<bankVars, schedVars, shortsVars, timedVars, bufferVars, diskVars, auxVars>>

\* retry_job
RetryJob ==
    /\ up
    /\ \E j \in JobIds :
        IF jobs[j] = NoJob
        THEN /\ resp' = [op |-> "retry", id |-> j, code |-> 404]
             /\ UNCHANGED <<jobs, jobsFile, tasks>>
             /\ UNCHANGED busVars
        ELSE IF ~RetryAllowed(jobs[j])
        THEN /\ resp' = [op |-> "retry", id |-> j, code |-> 400]
             /\ UNCHANGED <<jobs, jobsFile, tasks>>
             /\ UNCHANGED busVars
        ELSE /\ jobs' = [jobs EXCEPT ![j] = Retried(jobs[j])]
             /\ jobsFile' = jobs'
             /\ tasks' = tasks \cup {[ids |-> <<j>>, pos |-> 1, phase |-> "queued",
                                      stage |-> 0, batch |-> FALSE]}
             /\ resp' = [op |-> "retry", id |-> j, code |-> 200]
             /\ broadcast_sse(<<Msg("job_update", j, jobs'[j])>>)
    /\ UNCHANGED <<up, nextId, skipped>>
    /\ UNCHANGED <<bankVars, schedVars, shortsVars, timedVars, bufferVars, diskVars, auxVars>>

\* cancel_job
CancelJob ==
    /\ up
    /\ \E j \in JobIds :
        IF jobs[j] = NoJob
        THEN /\ resp' = [op |-> "cancel", id |-> j, code |-> 404]
             /\ UNCHANGED <<jobs, jobsFile>>
             /\ UNCHANGED busVars
        ELSE IF ~CancelAllowed(jobs[j])
        THEN /\ resp' = [op |-> "cancel", id |-> j, code |-> 400]
             /\ UNCHANGED <<jobs, jobsFile>>
             /\ UNCHANGED busVars
        ELSE /\ jobs' = [jobs EXCEPT ![j].status = "cancelled",
                                     ![j].message = "Cancelled by user"]
             /\ jobsFile' = jobs'
             /\ resp' = [op |-> "cancel", id |-> j, code |-> 200]
             /\ broadcast_sse(<<Msg("job_update", j, jobs'[j])>>)
    /\ UNCHANGED <<up, nextId, tasks, skipped>>
    /\ UNCHANGED <<bankVars, schedVars, shortsVars, timedVars, bufferVars, diskVars, auxVars>>

\* delete_job
DeleteJob ==
    /\ up
    /\ \E j \in JobIds :
        /\ jobs[j] # NoJob
        /\ jobs' = [jobs EXCEPT ![j] = NoJob]
        /\ jobsFile' = jobs'
        /\ broadcast_sse(<<Msg("job_deleted", j, NoJob)>>)
    /\ resp' = NoResp
    /\ UNCHANGED <<up, nextId, tasks, skipped>>
    /\ UNCHANGED <<bankVars, schedVars, shortsVars, timedVars, bufferVars, diskVars, auxVars>>

\* clear_completed_jobs
ClearCompleted ==
    /\ up
    /\ jobs' = [j \in JobIds |->
                   IF jobs[j] # NoJob
                      /\ jobs[j].status \in {"completed", "failed", "cancelled"}
                   THEN NoJob ELSE jobs[j]]
    /\ jobsFile' = jobs'
    /\ broadcast_sse(<<Msg("jobs_cleared", 0,
                           [count |-> Cardinality({j \in JobIds : jobs'[j] # jobs[j]})])>>)
    /\ resp' = NoResp
    /\ UNCHANGED <<up, nextId, tasks, skipped>>
    /\ UNCHANGED <<bankVars, schedVars, shortsVars, timedVars, bufferVars, diskVars, auxVars>>

\* The process dies: both dicts, the queued tasks and the executor threads
\* are gone, jobs_store.json and shorts_jobs_store.json stay.
Crash ==
    /\ up
    /\ up' = FALSE
    /\ jobs' = [j \in JobIds |-> NoJob]
    /\ tasks' = {}
    /\ shorts_jobs' = [j \in ShortIds |-> NoJob]
    /\ shortsTasks' = {}
    /\ resp' = NoResp
    /\ sse_subscribers' = {}
    /\ queue' = [o \in Observers |-> <<>>]
    /\ stream' = [o \in Observers |-> NoStream]
    /\ UNCHANGED <<jobsFile, nextId, skipped, shortsFile, shortsNext>>
    /\ UNCHANGED <<bankVars, schedVars, timedVars, bufferVars, diskVars, auxVars>>

\* The start of the process: load_shorts_jobs() when the module is
\* imported (line 854), then lifespan, lines 131-138: load_jobs, the
\* recovery loop over `jobs`, save_jobs.
Lifespan ==
    /\ ~up
    /\ up' = TRUE
    /\ shorts_jobs' = shortsFile
    /\ jobs' = [j \in JobIds |-> Recover(jobsFile[j])]
    /\ jobsFile' = jobs'
    /\ resp' = NoResp
    /\ UNCHANGED <<nextId, tasks, skipped, shortsFile, shortsNext, shortsTasks>>
    /\ UNCHANGED <<bankVars, schedVars, timedVars, extVars>>

InitJobs ==
    /\ ideas = <<>>
    /\ shorts_domain_index = 0
    /\ genSnap = NoSnap
    /\ InitHistory
    /\ SchedIdle
    /\ JobsIdle
    /\ ShortsIdle
    /\ ExtIdle

NextJobs ==
    \/ GenerateVideo
    \/ GenerateBatch
    \/ RunGeneration
    \/ ProgressCallback
    \/ PipelineReturns
    \/ PipelineRaises
    \/ RetryJob
    \/ CancelJob
    \/ DeleteJob
    \/ ClearCompleted
    \/ Crash
    \/ Lifespan

SpecJobs == InitJobs /\ [][NextJobs]_vars

\* The executor carries the pipeline call of job j one step further: a
\* progress report, its return or its exception.
ExecutorStep(j) ==
    /\ \E t \in tasks : t.phase = "exec" /\ t.ids[t.pos] = j
    /\ ProgressCallback \/ PipelineReturns \/ PipelineRaises
    /\ \A t \in tasks : (t.phase = "exec" /\ t.ids[t.pos] = j) => t \notin tasks'

InitExecutor ==
    /\ ideas = <<>>
    /\ shorts_domain_index = 0
    /\ genSnap = NoSnap
    /\ InitHistory
    /\ SchedIdle
    /\ JobsIdle
    /\ ShortsIdle
    /\ ExtIdle

\* The operations that create a job, run it, or reach a job that runs
\* (cancel_job and clear_completed_jobs never touch a running job).
NextExecutor ==
    \/ GenerateVideo
    \/ GenerateBatch
    \/ RunGeneration
    \/ ProgressCallback
    \/ PipelineReturns
    \/ PipelineRaises
    \/ RetryJob
    \/ DeleteJob
    \/ Crash
    \/ Lifespan

\* The job store when every pipeline call that was started comes to an end
\* (run_in_executor runs each call in a worker thread of its own).
SpecExecutor ==
    InitExecutor /\ [][NextExecutor]_vars
        /\ \A j \in JobIds : WF_vars(ExecutorStep(j))

\* The task that has reached job j starts it or leaves it.
StartStep(j) ==
    /\ RunGeneration
    /\ \E t \in tasks :
           t.phase = "queued" /\ t.ids[t.pos] = j /\ t \notin tasks'

\* The job store when every queued task is run, every pipeline call that
\* was started comes to an end, and a stopped process is started again.
SpecPending ==
    InitExecutor /\ [][NextExecutor]_vars
        /\ \A j \in JobIds : WF_vars(StartStep(j)) /\ WF_vars(ExecutorStep(j))
        /\ WF_vars(Lifespan)

\* -------------------------------- job store under any progress reports
\* The percentages a pipeline may hand to progress_callback(percent, message).
Percents == {5, 10, 40, 70, 100}

\* progress_callback, lines 386-387, with any percentage: update_job stores
\* what it is given.
ProgressUpdate ==
    /\ up
    /\ \E t \in tasks, percent \in Percents :
        /\ t.phase = "exec"
        /\ t.stage < Len(ProgressPoints)
        /\ LET j == t.ids[t.pos]
           IN  /\ jobs' = IF jobs[j] = NoJob THEN jobs
                          ELSE [jobs EXCEPT ![j].progress = percent,
                                            ![j].message = "step"]
               /\ jobsFile' = IF jobs[j] = NoJob THEN jobsFile ELSE jobs'
               /\ tasks' = (tasks \ {t}) \cup {[t EXCEPT !.stage = t.stage + 1]}
               /\ broadcast_sse(IF jobs[j] = NoJob THEN <<>>
                                ELSE <<Msg("job_update", j, jobs'[j])>>)
    /\ resp' = NoResp
    /\ UNCHANGED <<up, nextId, skipped>>
    /\ UNCHANGED <<bankVars, schedVars, shortsVars, timedVars, bufferVars, diskVars, auxVars>>

InitProgress ==
    /\ ideas = <<>>
    /\ shorts_domain_index = 0
    /\ genSnap = NoSnap
    /\ InitHistory
    /\ SchedIdle
    /\ JobsIdle
    /\ ShortsIdle
    /\ ExtIdle

NextProgress ==
    \/ GenerateVideo
    \/ RunGeneration
    \/ ProgressUpdate
    \/ PipelineReturns
    \/ PipelineRaises
    \/ RetryJob

SpecProgress == InitProgress /\ [][NextProgress]_vars

\* ------------------------------------------------------ shorts job store
\* Some of the percentages generate_short reports, in its order.
ShortsProgressPoints == <<5, 70, 100>>

\* The record generate_short / generate_shorts_batch insert.
NewShortsJob(message) ==
    [status |-> "pending", progress |-> 0, message |-> message,
     created_at |-> TRUE, completed_at |-> FALSE, video_path |-> FALSE,
     error |-> "null"]

\* generate_short: insert a pending job, save, queue run_shorts_generation.
GenerateShort ==
    /\ up
    /\ shortsNext <= MaxShorts
    /\ shorts_jobs' = [shorts_jobs EXCEPT ![shortsNext] = NewShortsJob("Queued")]
    /\ shortsFile' = shorts_jobs'
    /\ shortsTasks' = shortsTasks \cup
           {[ids |-> <<shortsNext>>, pos |-> 1, phase |-> "queued",
             stage |-> 0, batch |-> FALSE]}
    /\ shortsNext' = shortsNext + 1
    /\ broadcast_sse(<<Msg("shorts_job_created", shortsNext,
                           shorts_jobs'[shortsNext])>>)
    /\ UNCHANGED <<bankVars, schedVars, jobVars, timedVars, bufferVars, diskVars, auxVars>>

\* generate_shorts_batch with count 2: two pending jobs, save, queue
\* run_shorts_batch.
GenerateShortsBatch ==
    /\ up
    /\ shortsNext + 1 <= MaxShorts
    /\ shorts_jobs' = [shorts_jobs EXCEPT
                          ![shortsNext] = NewShortsJob("Queued (batch)"),
                          ![shortsNext + 1] = NewShortsJob("Queued (batch)")]
    /\ shortsFile' = shorts_jobs'
    /\ shortsTasks' = shortsTasks \cup
           {[ids |-> <<shortsNext, shortsNext + 1>>, pos |-> 1,
             phase |-> "queued", stage |-> 0, batch |-> TRUE]}
    /\ shortsNext' = shortsNext + 2
    /\ broadcast_sse(<<Msg("shorts_job_created", shortsNext,
                           shorts_jobs'[shortsNext]),
                       Msg("shorts_job_created", shortsNext + 1,
                           shorts_jobs'[shortsNext + 1])>>)
    /\ UNCHANGED <<bankVars, schedVars, jobVars, timedVars, bufferVars, diskVars, auxVars>>

\* run_shorts_batch and run_shorts_generation up to the executor call: the
\* task reaches its next job and leaves it or marks it running.
RunShortsGeneration ==
    /\ up
    /\ \E t \in shortsTasks :
        /\ t.phase = "queued"
        /\ LET j == t.ids[t.pos]
           IN  IF RunGenerationSkips(shorts_jobs[j])
               THEN /\ shortsTasks' = (shortsTasks \ {t}) \cup Advance(t)
                    /\ UNCHANGED <<shorts_jobs, shortsFile>>
                    /\ UNCHANGED busVars
               ELSE /\ shorts_jobs' = [shorts_jobs EXCEPT
                                          ![j].status = "running",
                                          ![j].message = "Initializing..."]
                    /\ shortsFile' = shorts_jobs'
                    /\ shortsTasks' = (shortsTasks \ {t}) \cup
                                          {[t EXCEPT !.phase = "exec"]}
                    /\ broadcast_sse(<<Msg("shorts_job_update", j,
                                           shorts_jobs'[j])>>)
    /\ UNCHANGED shortsNext
    /\ UNCHANGED <<bankVars, schedVars, jobVars, timedVars, bufferVars, diskVars, auxVars>>

\* progress_cb of run_shorts_generation.
ShortsProgress ==
    /\ up
    /\ \E t \in shortsTasks :
        /\ t.phase = "exec"
        /\ t.stage < Len(ShortsProgressPoints)
        /\ LET j == t.ids[t.pos]
           IN  /\ shorts_jobs' =
                      IF shorts_jobs[j] = NoJob THEN shorts_jobs
                      ELSE [shorts_jobs EXCEPT
                               ![j].progress = ShortsProgressPoints[t.stage + 1],
                               ![j].message = "step"]
               /\ shortsFile' = IF shorts_jobs[j] = NoJob THEN shortsFile
                                ELSE shorts_jobs'
               /\ shortsTasks' = (shortsTasks \ {t}) \cup
                                     {[t EXCEPT !.stage = t.stage + 1]}
               /\ broadcast_sse(IF shorts_jobs[j] = NoJob THEN <<>>
                                ELSE <<Msg("shorts_job_update", j,
                                           shorts_jobs'[j])>>)
    /\ UNCHANGED shortsNext
    /\ UNCHANGED <<bankVars, schedVars, jobVars, timedVars, bufferVars, diskVars, auxVars>>

\* run_shorts_generation: generate_short returned, the final update.
ShortsReturns ==
    /\ up
    /\ \E t \in shortsTasks :
        /\ t.phase = "exec"
        /\ t.stage = Len(ShortsProgressPoints)
        /\ LET j == t.ids[t.pos]
           IN  /\ shorts_jobs' =
                      IF shorts_jobs[j] = NoJob THEN shorts_jobs
                      ELSE [shorts_jobs EXCEPT
                               ![j].status = "completed",
                               ![j].progress = 100,
                               ![j].message = "Short complete!",
                               ![j].completed_at = TRUE,
                               ![j].video_path = TRUE]
               /\ shortsFile' = IF shorts_jobs[j] = NoJob THEN shortsFile
                                ELSE shorts_jobs'
               /\ shortsTasks' = (shortsTasks \ {t}) \cup Advance(t)
               /\ broadcast_sse(IF shorts_jobs[j] = NoJob THEN <<>>
                                ELSE <<Msg("shorts_job_update", j,
                                           shorts_jobs'[j])>>)
    /\ UNCHANGED shortsNext
    /\ UNCHANGED <<bankVars, schedVars, jobVars, timedVars, bufferVars, diskVars, auxVars>>

\* run_shorts_generation: the except branch.
ShortsRaises ==
    /\ up
    /\ \E t \in shortsTasks :
        /\ t.phase = "exec"
        /\ LET j == t.ids[t.pos]
           IN  /\ shorts_jobs' =
                      IF shorts_jobs[j] = NoJob THEN shorts_jobs
                      ELSE [shorts_jobs EXCEPT
                               ![j].status = "failed",
                               ![j].error = "exception",
                               ![j].message = "Error: exception"]
               /\ shortsFile' = IF shorts_jobs[j] = NoJob THEN shortsFile
                                ELSE shorts_jobs'
               /\ shortsTasks' = (shortsTasks \ {t}) \cup Advance(t)
               /\ broadcast_sse(IF shorts_jobs[j] = NoJob THEN <<>>
                                ELSE <<Msg("shorts_job_update", j,
                                           shorts_jobs'[j])>>)
    /\ UNCHANGED shortsNext
    /\ UNCHANGED <<bankVars, schedVars, jobVars, timedVars, bufferVars, diskVars, auxVars>>

\* delete_shorts_job
DeleteShortsJob ==
    /\ up
    /\ \E j \in ShortIds :
        /\ shorts_jobs[j] # NoJob
        /\ shorts_jobs' = [shorts_jobs EXCEPT ![j] = NoJob]
        /\ shortsFile' = shorts_jobs'
    /\ UNCHANGED <<shortsNext, shortsTasks>>
    /\ UNCHANGED <<bankVars, schedVars, jobVars, timedVars, extVars>>

InitShorts ==
    /\ ideas = <<>>
    /\ shorts_domain_index = 0
    /\ genSnap = NoSnap
    /\ InitHistory
    /\ SchedIdle
    /\ JobsIdle
    /\ ShortsIdle
    /\ ExtIdle

NextShorts ==
    \/ GenerateShort
    \/ GenerateShortsBatch
    \/ RunShortsGeneration
    \/ ShortsProgress
    \/ ShortsReturns
    \/ ShortsRaises
    \/ DeleteShortsJob
    \/ Crash
    \/ Lifespan

SpecShorts == InitShorts /\ [][NextShorts]_vars

\* ------------------------------------- the scheduler against the clock
\* await asyncio.sleep(30 * 60)
SleepMinutes == 30

LastMinute == 24 * 60 - 1

\* The slot (index into PUBLISH_TIMES) whose window holds t and whose key
\* is not in the done-set; 0 if there is none.
OpenSlot(t, slots) ==
    LET open == {s \in 1..Len(PUBLISH_TIMES) :
                     /\ InWindow(t, PUBLISH_TIMES[s])
                     /\ ~IsSlotDone(slots, SlotKey(t.day, PUBLISH_TIMES[s]))}
    IN  IF open = {} THEN 0 ELSE CHOOSE s \in open : \A s2 \in open : s <= s2

\* The process was started in the first half hour of the day with
\* auto-publish enabled and two available ideas in the bank; the scheduler
\* task polls at once.
InitTimed ==
    /\ ideas = <<[domain |-> 1, status |-> "available"],
                 [domain |-> 2, status |-> "available"]>>
    /\ shorts_domain_index = 0
    /\ genSnap = NoSnap
    /\ InitHistory
    /\ enabled = TRUE
    /\ published_slots = <<>>
    /\ calendar = <<>>
    /\ clock \in {[day |-> 0, min |-> m] : m \in 0..(SleepMinutes - 1)}
    /\ now = clock
    /\ pc = "sleep"
    /\ slotIdx = 1
    /\ attempt = NoAttempt
    /\ started = [k \in SlotKeys |-> 0]
    /\ skippedDone = {}
    /\ noItem = {}
    /\ restarts = 0
    /\ timer = 0
    /\ JobsIdle
    /\ ShortsIdle
    /\ ExtIdle

\* One minute passes while the scheduler sleeps or its poll works.
Minute ==
    /\ timer > 0
    /\ clock.min < LastMinute
    /\ clock' = [clock EXCEPT !.min = @ + 1]
    /\ timer' = timer - 1
    /\ UNCHANGED <<enabled, published_slots, calendar, now, pc, slotIdx,
                   attempt, started, skippedDone, noItem, restarts>>
    /\ UNCHANGED <<bankVars, jobVars, shortsVars, extVars>>

\* The sleep is over: run_scheduled_publish reads now and starts its work
\* (the backfill, which stores nothing new here, and the job of the open
\* slot if there is one); the work takes some number of minutes.
TimedPoll ==
    /\ pc = "sleep"
    /\ timer = 0
    /\ enabled
    /\ now' = clock
    /\ pc' = "work"
    /\ \E minutes \in 0..MaxWork : timer' = minutes
    /\ LET s == OpenSlot(clock, published_slots)
           key == SlotKey(clock.day, PUBLISH_TIMES[IF s = 0 THEN 1 ELSE s])
       IN  IF s = 0
           THEN UNCHANGED <<ideas, shorts_domain_index, attempt, started,
                            calendar, noItem>>
           ELSE \E r \in pick_idea(ideas, shorts_domain_index) :
                  /\ ideas' = r.ideas
                  /\ shorts_domain_index' = r.index
                  /\ IF r.picked = 0
                     THEN /\ noItem' = noItem \cup {key}
                          /\ UNCHANGED <<attempt, started, calendar>>
                     ELSE /\ started' = [started EXCEPT ![key] = @ + 1]
                          /\ calendar' = Append(calendar,
                                 [slot |-> key, status |-> "generating",
                                  error |-> "none"])
                          /\ attempt' = [running |-> TRUE, idea |-> r.picked,
                                         slot |-> key,
                                         entry |-> Len(calendar) + 1]
                          /\ UNCHANGED noItem
    /\ UNCHANGED <<enabled, published_slots, clock, slotIdx, skippedDone, restarts>>
    /\ UNCHANGED <<genSnap, inflight, lastOp, picked, hist>>
    /\ UNCHANGED <<jobVars, shortsVars, extVars>>

\* The poll's work is over: the job, if one ran, has ended as in
\* AttemptGenerated and its slot is marked done; the scheduler task sleeps.
TimedPollReturns ==
    /\ pc = "work"
    /\ timer = 0
    /\ IF attempt.running
       THEN /\ ideas' = mark_used(ideas, attempt.idea)
            /\ calendar' = FailedEntries(calendar, attempt.entry, attempt.slot,
                                         "UnboundLocalError: result")
            /\ published_slots' = MarkFailedSlotDone(published_slots, attempt.slot)
       ELSE UNCHANGED <<ideas, calendar, published_slots>>
    /\ attempt' = NoAttempt
    /\ pc' = "sleep"
    /\ timer' = SleepMinutes
    /\ UNCHANGED <<enabled, clock, now, slotIdx, started, skippedDone, noItem,
                   restarts>>
    /\ UNCHANGED <<shorts_domain_index, genSnap, inflight, lastOp, picked, hist>>
    /\ UNCHANGED <<jobVars, shortsVars, extVars>>

NextTimed ==
    \/ Minute
    \/ TimedPoll
    \/ TimedPollReturns

SpecTimed == InitTimed /\ [][NextTimed]_vars

\* ------------------------------------------------- buffer scheduler
\* LongFormPublisher.toggle
LfToggle ==
    /\ lf_enabled' = ~lf_enabled
    /\ UNCHANGED <<last_generated, automation, library, committed, lfPc,
                   lfPoll, reads>>
    /\ UNCHANGED <<bankVars, schedVars, jobVars, shortsVars, timedVars, busVars, diskVars, auxVars>>

\* check_and_publish, lines 55-68, with generate_one_video up to its
\* run_in_executor (lines 118-165): one poll of the buffer scheduler.
CheckAndPublish ==
    /\ lfPc = "idle"
    /\ IF ~lf_enabled
       THEN /\ lfPoll' = NoPoll
            /\ UNCHANGED <<automation, reads, lfPc>>
       ELSE \E q \in Queries(committed) :
              LET days_buffer == get_days_of_buffer(q, clock.day)
              IN  /\ lfPoll' = [checked |-> TRUE, query |-> q,
                                days |-> days_buffer]
                  /\ IF BufferAdequate(days_buffer)
                     THEN UNCHANGED <<automation, reads, lfPc>>
                     ELSE \E variation \in Variations :
                            LET g == generate_one_video(automation, library,
                                                        variation)
                            IN  /\ automation.total_generated < MaxGenerated
                                /\ automation' = g.state
                                /\ reads' = g.reads
                                /\ lfPc' = "generating"
    /\ UNCHANGED <<lf_enabled, last_generated, library, committed>>
    /\ UNCHANGED <<bankVars, schedVars, jobVars, shortsVars, timedVars, busVars, diskVars, auxVars>>

\* generate_one_video, lines 165-192, then check_and_publish, lines 69-75:
\* the generator returned and publish_video uploads with auto-scheduling;
\* the upload may raise (lines 76-79).
GenerationReturns ==
    /\ lfPc = "generating"
    /\ \E uploaded \in BOOLEAN :
           IF uploaded
           THEN /\ \E taken \in {committed, {}},
                      start \in {clock.day, clock.day + 1} :
                        committed' = committed \cup {NextPublishDate(taken, start)}
                /\ last_generated' = [set |-> TRUE, day |-> clock.day]
           ELSE UNCHANGED <<committed, last_generated>>
    /\ lfPc' = "idle"
    /\ UNCHANGED <<lf_enabled, automation, library, lfPoll, reads>>
    /\ UNCHANGED <<bankVars, schedVars, jobVars, shortsVars, timedVars, busVars, diskVars, auxVars>>

\* The generator raised: check_and_publish, lines 76-79.
GenerationRaises ==
    /\ lfPc = "generating"
    /\ lfPc' = "idle"
    /\ UNCHANGED <<lf_enabled, last_generated, automation, library, committed,
                   lfPoll, reads>>
    /\ UNCHANGED <<bankVars, schedVars, jobVars, shortsVars, timedVars, busVars, diskVars, auxVars>>

\* Committed dates the collaborator may hold when the model starts, as
\* offsets from today.
CommittedAtStart == {{}, {1}, {3}, {-1}, {0}, {-1, 2}}

\* The buffer scheduler over whatever an earlier run left in
\* automation_state.json and music_library.json.
InitBuffer ==
    /\ ideas = <<>>
    /\ shorts_domain_index = 0
    /\ genSnap = NoSnap
    /\ InitHistory
    /\ SchedIdle
    /\ JobsIdle
    /\ ShortsIdle
    /\ lf_enabled = TRUE
    /\ last_generated = NoStamp
    /\ automation \in [domain_index : SavedCursors, duration_toggle : SavedCursors,
                       music_index : SavedCursors, total_generated : {0}]
    /\ library \in [short : 0..MaxTracks, long : 0..MaxTracks]
    /\ committed \in {{clock.day + o : o \in c} : c \in CommittedAtStart}
    /\ lfPc = "idle"
    /\ lfPoll = NoPoll
    /\ reads = {}
    /\ BusIdle
    /\ DiskIdle
    /\ AuxIdle

NextBuffer ==
    \/ LfToggle
    \/ CheckAndPublish
    \/ GenerationReturns
    \/ GenerationRaises

SpecBuffer == InitBuffer /\ [][NextBuffer]_vars

\* ------------------------------------------- health check of the buffer
\* {**a, **b} and {"k": v, **b}: the keys of both, the later entry wins.
DictMerge(a, b) ==
    [k \in DOMAIN a \cup DOMAIN b |-> IF k \in DOMAIN b THEN b[k] ELSE a[k]]

\* LongFormPublisher._load_state: the stored keys, the defaults for the
\* missing ones.
LoadLfState == [enabled |-> lf_enabled, last_generated |-> last_generated]

\* _check_longform_pipeline, lines 115-140: get_status, and for a disabled
\* scheduler _save_state({"enabled": True, **pub._load_state()}).
CheckLongformPipeline ==
    /\ LET status == LoadLfState
       IN  IF ~status.enabled
           THEN LET saved == DictMerge([enabled |-> TRUE], LoadLfState)
                IN  /\ lf_enabled' = saved.enabled
                    /\ last_generated' = saved.last_generated
                    /\ health' = [called |-> TRUE, status |-> "warning",
                                  enabled |-> status.enabled,
                                  action |-> "auto_enabled"]
           ELSE /\ health' = [called |-> TRUE, status |-> "warning",
                              enabled |-> status.enabled, action |-> "none"]
                /\ UNCHANGED <<lf_enabled, last_generated>>
    /\ UNCHANGED <<automation, library, committed, lfPc, lfPoll, reads>>
    /\ UNCHANGED <<schedule, recorded, order, fanout>>
    /\ UNCHANGED <<bankVars, schedVars, jobVars, shortsVars, timedVars, busVars, diskVars>>

NextHealth ==
    \/ LfToggle
    \/ CheckAndPublish
    \/ GenerationReturns
    \/ GenerationRaises
    \/ CheckLongformPipeline

SpecHealth == InitBuffer /\ [][NextHealth]_vars

\* -------------------------------------- every reader of a rotation cursor
\* pick_idea, generate_batch and the buffer scheduler over whatever cursor
\* values and collections an earlier run or deployment left behind.
\* Stores for the scan of pick_idea: empty, and one available idea in the
\* first or in the last category.
CursorStores ==
    {<<>>, <<[domain |-> 1, status |-> "available"]>>,
     <<[domain |-> NumDomains, status |-> "available"]>>}

InitCursors ==
    /\ ideas \in CursorStores
    /\ shorts_domain_index \in SavedCursors
    /\ genSnap = NoSnap
    /\ InitHistory
    /\ SchedIdle
    /\ JobsIdle
    /\ ShortsIdle
    /\ lf_enabled = TRUE
    /\ last_generated = NoStamp
    /\ automation \in [domain_index : SavedCursors, duration_toggle : SavedCursors,
                       music_index : SavedCursors, total_generated : {0}]
    /\ library \in [short : 0..MaxTracks, long : 0..MaxTracks]
    /\ committed = {}
    /\ lfPc = "idle"
    /\ lfPoll = NoPoll
    /\ reads = {}
    /\ BusIdle
    /\ DiskIdle
    /\ AuxIdle

NextCursors ==
    \/ PickIdea
    \/ GenerateBatch
    \/ CheckAndPublish
    \/ GenerationReturns
    \/ GenerationRaises

SpecCursors == InitCursors /\ [][NextCursors]_vars

\* ------------------------------------------- event bus and its observers
\* delete_video: the folder is removed, then the jobs whose video_url holds
\* the video id are dropped and the store saved. j.get("video_url", "")
\* is None for a job that has no video yet, and None.find raises: the
\* request then fails before any job is removed.
DeleteVideo ==
    /\ up
    /\ \E j \in JobIds :
        /\ jobs[j] # NoJob
        /\ jobs[j].video_path
        /\ IF \E k \in JobIds : jobs[k] # NoJob /\ ~jobs[k].video_path
           THEN /\ resp' = [op |-> "delete_video", id |-> j, code |-> 500]
                /\ UNCHANGED <<jobs, jobsFile>>
           ELSE /\ jobs' = [jobs EXCEPT ![j] = NoJob]
                /\ jobsFile' = jobs'
                /\ resp' = [op |-> "delete_video", id |-> j, code |-> 200]
    /\ UNCHANGED <<up, nextId, tasks, skipped>>
    /\ UNCHANGED <<bankVars, schedVars, shortsVars, timedVars, extVars>>

\* sse_events, lines 227-228 and 247: the queue is made and put in the list,
\* the response is returned; its generator has not run yet. The new
\* observer takes the lowest free number.
SseEvents ==
    /\ up
    /\ \E o \in Observers :
        /\ stream[o].state = "none"
        /\ \A other \in Observers : stream[other].state = "none" => o <= other
        /\ sse_subscribers' = sse_subscribers \cup {o}
        /\ queue' = [queue EXCEPT ![o] = <<>>]
        /\ stream' = [stream EXCEPT ![o] =
                         [state |-> "registered",
                          view |-> NoView,
                          lost |-> FALSE]]
    /\ UNCHANGED <<jobVars, bufferVars, diskVars, auxVars>>
    /\ UNCHANGED <<bankVars, schedVars, shortsVars, timedVars>>

\* What an observer makes of an event: created and updated jobs replace
\* its copy, a deleted job goes, jobs_cleared drops its ended jobs.
Apply(view, m) ==
    CASE m.event \in {"job_created", "job_update"} ->
             [view EXCEPT ![m.id] = m.data]
      [] m.event = "job_deleted" ->
             [view EXCEPT ![m.id] = NoJob]
      [] m.event = "jobs_cleared" ->
             [j \in JobIds |->
                 IF view[j] # NoJob
                    /\ view[j].status \in {"completed", "failed", "cancelled"}
                 THEN NoJob ELSE view[j]]
      [] OTHER -> view

\* event_generator, line 233: the init event with list(jobs.values()).
StreamInit ==
    /\ up
    /\ \E o \in Observers :
        /\ stream[o].state = "registered"
        /\ stream' = [stream EXCEPT ![o].state = "streaming",
                                     ![o].view = IF stream[o].lost THEN NoView
                                                 ELSE jobs]
    /\ UNCHANGED <<sse_subscribers, queue>>
    /\ UNCHANGED <<jobVars, bufferVars, diskVars, auxVars>>
    /\ UNCHANGED <<bankVars, schedVars, shortsVars, timedVars>>

\* event_generator, lines 239-240: the next queued notification is sent.
StreamNext ==
    /\ up
    /\ \E o \in Observers :
        /\ stream[o].state = "streaming"
        /\ queue[o] # <<>>
        /\ queue' = [queue EXCEPT ![o] = Tail(queue[o])]
        /\ stream' = [stream EXCEPT ![o].view =
                         IF stream[o].lost THEN NoView
                         ELSE Apply(@, Head(queue[o]))]
    /\ UNCHANGED sse_subscribers
    /\ UNCHANGED <<jobVars, bufferVars, diskVars, auxVars>>
    /\ UNCHANGED <<bankVars, schedVars, shortsVars, timedVars>>

\* event_generator, lines 236-237 and 243-245: the client is gone, the
\* queue leaves the list.
Disconnect ==
    /\ up
    /\ \E o \in Observers :
        /\ stream[o].state = "streaming"
        /\ sse_subscribers' = sse_subscribers \ {o}
        /\ queue' = [queue EXCEPT ![o] = <<>>]
        /\ stream' = [stream EXCEPT ![o] = NoStream]
    /\ UNCHANGED <<jobVars, bufferVars, diskVars, auxVars>>
    /\ UNCHANGED <<bankVars, schedVars, shortsVars, timedVars>>

\* The process is up with an empty job store and no observer; every job
\* id but the last belongs to a job created and deleted before.
InitBus ==
    /\ ideas = <<>>
    /\ shorts_domain_index = 0
    /\ genSnap = NoSnap
    /\ InitHistory
    /\ SchedIdle
    /\ jobs = [j \in JobIds |-> NoJob]
    /\ jobsFile = jobs
    /\ up = TRUE
    /\ nextId = MaxJobs
    /\ tasks = {}
    /\ resp = NoResp
    /\ skipped = {}
    /\ ShortsIdle
    /\ ExtIdle

NextBus ==
    \/ GenerateVideo
    \/ RunGeneration
    \/ ProgressCallback
    \/ PipelineReturns
    \/ PipelineRaises
    \/ DeleteJob
    \/ ClearCompleted
    \/ DeleteVideo
    \/ SseEvents
    \/ StreamInit
    \/ StreamNext
    \/ Disconnect

SpecBus == InitBus /\ [][NextBus]_vars

\* ----------------------------------- the fan-out from the worker thread
\* list.remove(queue)
Remove(list, o) == SelectSeq(list, LAMBDA x : x # o)

\* sse_events, lines 227-228: sse_subscribers.append(queue).
SubscribeInOrder ==
    /\ up
    /\ \E o \in Observers :
        /\ stream[o].state = "none"
        /\ \A other \in Observers : stream[other].state = "none" => o <= other
        /\ sse_subscribers' = sse_subscribers \cup {o}
        /\ order' = Append(order, o)
        /\ queue' = [queue EXCEPT ![o] = <<>>]
        /\ stream' = [stream EXCEPT ![o] =
                         [state |-> "registered",
                          view |-> NoView,
                          lost |-> FALSE]]
    /\ UNCHANGED <<schedule, recorded, health, fanout>>
    /\ UNCHANGED <<jobVars, bufferVars, diskVars>>
    /\ UNCHANGED <<bankVars, schedVars, shortsVars, timedVars>>

\* event_generator, lines 236-237 and 243-245, on the event loop: the
\* client is gone, sse_subscribers.remove(queue). A loop over the list that
\* runs on the worker thread goes on with its index.
UnsubscribeInOrder ==
    /\ up
    /\ \E o \in Observers :
        /\ stream[o].state = "streaming"
        /\ sse_subscribers' = sse_subscribers \ {o}
        /\ order' = Remove(order, o)
        /\ queue' = [queue EXCEPT ![o] = <<>>]
        /\ stream' = [stream EXCEPT ![o] = NoStream]
        /\ fanout' = IF fanout.running
                     THEN [fanout EXCEPT !.stayed = @ \ {o}]
                     ELSE fanout
    /\ UNCHANGED <<schedule, recorded, health>>
    /\ UNCHANGED <<jobVars, bufferVars, diskVars>>
    /\ UNCHANGED <<bankVars, schedVars, shortsVars, timedVars>>

\* progress_callback, lines 386-387, on the worker thread, and update_job,
\* lines 58-63: the job is updated and saved, the event is built, the loop
\* over sse_subscribers begins at index 0.
CallbackBegins ==
    /\ up
    /\ ~fanout.running
    /\ \E t \in tasks :
        /\ t.phase = "exec"
        /\ t.stage < Len(ProgressPoints)
        /\ LET j == t.ids[t.pos]
           IN  /\ jobs' = IF jobs[j] = NoJob THEN jobs
                          ELSE [jobs EXCEPT ![j].progress = ProgressPoints[t.stage + 1],
                                            ![j].message = "step"]
               /\ jobsFile' = IF jobs[j] = NoJob THEN jobsFile ELSE jobs'
               /\ tasks' = (tasks \ {t}) \cup {[t EXCEPT !.stage = t.stage + 1]}
               /\ fanout' = IF jobs[j] = NoJob THEN fanout
                            ELSE [running |-> TRUE,
                                  msg |-> Msg("job_update", j, jobs'[j]),
                                  idx |-> 0,
                                  stayed |-> sse_subscribers,
                                  got |-> {}]
    /\ resp' = NoResp
    /\ UNCHANGED <<up, nextId, skipped>>
    /\ UNCHANGED <<schedule, recorded, health, order>>
    /\ UNCHANGED <<bankVars, schedVars, shortsVars, timedVars, bufferVars, busVars, diskVars>>

\* update_job, lines 63-67: the list iterator finds an element at its
\* index, q.put_nowait is called for it, the index moves on.
CallbackPuts ==
    /\ up
    /\ fanout.running
    /\ fanout.idx < Len(order)
    /\ LET o == order[fanout.idx + 1]
       IN  /\ queue' = [queue EXCEPT ![o] = put_nowait(queue[o], fanout.msg)]
           /\ stream' = IF Len(queue[o]) >= QueueMaxsize
                        THEN [stream EXCEPT ![o].lost = TRUE, ![o].view = NoView]
                        ELSE stream
           /\ fanout' = [fanout EXCEPT !.idx = @ + 1, !.got = @ \cup {o}]
    /\ UNCHANGED <<sse_subscribers, order>>
    /\ UNCHANGED <<schedule, recorded, health>>
    /\ UNCHANGED <<jobVars, bufferVars, diskVars>>
    /\ UNCHANGED <<bankVars, schedVars, shortsVars, timedVars>>

\* update_job, line 63: the list iterator finds its index at or beyond the
\* length of the list, the loop ends.
CallbackEnds ==
    /\ up
    /\ fanout.running
    /\ fanout.idx >= Len(order)
    /\ fanout' = NoFanout
    /\ UNCHANGED <<schedule, recorded, health, order>>
    /\ UNCHANGED <<jobVars, bufferVars, busVars, diskVars>>
    /\ UNCHANGED <<bankVars, schedVars, shortsVars, timedVars>>

NextFanout ==
    \/ GenerateVideo
    \/ RunGeneration
    \/ SubscribeInOrder
    \/ StreamInit
    \/ UnsubscribeInOrder
    \/ CallbackBegins
    \/ CallbackPuts
    \/ CallbackEnds

SpecFanout == InitBus /\ [][NextFanout]_vars

\* ------------------------------------------------- writes and read-backs
\* The three documents as the files hold them.
Document(file) ==
    CASE file = "ideas" -> [ideas |-> ideas, index |-> shorts_domain_index]
      [] file = "state" -> [enabled |-> enabled,
                            published_slots |-> published_slots]
      [] file = "jobs"  -> jobsFile

\* What the loaders make of a file that does not parse: _load_data and
\* _load_state return their defaults (data.get("shorts_domain_index", 0)
\* then reads 0), load_jobs sets jobs = {}.
Defaults(file) ==
    CASE file = "ideas" -> [ideas |-> <<>>, index |-> 0]
      [] file = "state" -> [enabled |-> FALSE, published_slots |-> <<>>]
      [] file = "jobs"  -> [j \in JobIds |-> NoJob]

\* The files take the given contents; the other files stay.
Holds(file, doc) ==
    /\ IF file = "ideas"
       THEN ideas' = doc.ideas /\ shorts_domain_index' = doc.index
       ELSE UNCHANGED <<ideas, shorts_domain_index>>
    /\ IF file = "state"
       THEN enabled' = doc.enabled /\ published_slots' = doc.published_slots
       ELSE UNCHANGED <<enabled, published_slots>>
    /\ IF file = "jobs"
       THEN jobsFile' = doc
       ELSE UNCHANGED jobsFile

\* _save_data, _save_state, save_jobs: open(path, "w") empties the file in
\* place and json.dump then writes the document piece by piece; until the
\* file is closed it holds no document a loader can parse.
OpenForWriting(file, doc) ==
    /\ writing = NoWrite
    /\ writing' = [file |-> file, old |-> Document(file), new |-> doc]
    /\ Holds(file, Defaults(file))

\* pick_idea, lines 69-90 and _save_data, line 35: the idea is marked and
\* the cursor advanced in the loaded document, the file is opened.
PickOpensFile ==
    /\ up
    /\ \E r \in pick_idea(ideas, shorts_domain_index) :
           /\ r.picked # 0
           /\ OpenForWriting("ideas", [ideas |-> r.ideas, index |-> r.index])
           /\ picked' = r.picked
    /\ lastOp' = "pick"
    /\ UNCHANGED <<genSnap, inflight, hist>>
    /\ UNCHANGED <<calendar, clock, now, pc, slotIdx, attempt, started,
                   skippedDone, noItem, restarts>>
    /\ UNCHANGED <<jobs, up, nextId, tasks, resp, skipped>>
    /\ UNCHANGED <<interrupted, seen>>
    /\ UNCHANGED <<shortsVars, timedVars, bufferVars, busVars, auxVars>>

\* _mark_slot_done, lines 96-103 and _save_state, line 36: the key is put
\* in the loaded done-set, the file is opened.
MarkSlotDoneOpensFile ==
    /\ up
    /\ \E key \in SlotKeys :
           /\ ~IsSlotDone(published_slots, key)
           /\ OpenForWriting("state",
                  [enabled |-> enabled,
                   published_slots |-> MarkSlotDone(published_slots, key)])
    /\ UNCHANGED bankVars
    /\ UNCHANGED <<calendar, clock, now, pc, slotIdx, attempt, started,
                   skippedDone, noItem, restarts>>
    /\ UNCHANGED <<jobs, up, nextId, tasks, resp, skipped>>
    /\ UNCHANGED <<interrupted, seen>>
    /\ UNCHANGED <<shortsVars, timedVars, bufferVars, busVars, auxVars>>

\* toggle, lines 50-53 and _save_state, line 36.
ToggleOpensFile ==
    /\ up
    /\ OpenForWriting("state", [enabled |-> ~enabled,
                                published_slots |-> published_slots])
    /\ UNCHANGED bankVars
    /\ UNCHANGED <<calendar, clock, now, pc, slotIdx, attempt, started,
                   skippedDone, noItem, restarts>>
    /\ UNCHANGED <<jobs, up, nextId, tasks, resp, skipped>>
    /\ UNCHANGED <<interrupted, seen>>
    /\ UNCHANGED <<shortsVars, timedVars, bufferVars, busVars, auxVars>>

\* generate_video, lines 350-359 and save_jobs, line 51: the pending job
\* is in the dict, the file is opened.
GenerateVideoOpensFile ==
    /\ up
    /\ nextId <= MaxJobs
    /\ jobs' = [jobs EXCEPT ![nextId] = NewJob("Queued for processing")]
    /\ OpenForWriting("jobs", jobs')
    /\ nextId' = nextId + 1
    /\ resp' = NoResp
    /\ UNCHANGED bankVars
    /\ UNCHANGED <<calendar, clock, now, pc, slotIdx, attempt, started,
                   skippedDone, noItem, restarts>>
    /\ UNCHANGED <<up, tasks, skipped>>
    /\ UNCHANGED <<interrupted, seen>>
    /\ UNCHANGED <<shortsVars, timedVars, bufferVars, busVars, auxVars>>

\* json.dump returns and the with block closes the file: it holds the new
\* document. generate_video goes on to queue run_generation (lines
\* 360-364).
WriteCloses ==
    /\ up
    /\ writing # NoWrite
    /\ Holds(writing.file, writing.new)
    /\ writing' = NoWrite
    /\ IF writing.file = "jobs"
       THEN /\ tasks' = tasks \cup {[ids |-> <<nextId - 1>>, pos |-> 1,
                                     phase |-> "queued", stage |-> 0,
                                     batch |-> FALSE]}
            /\ broadcast_sse(<<Msg("job_created", nextId - 1, jobs[nextId - 1])>>)
       ELSE UNCHANGED <<tasks, busVars>>
    /\ UNCHANGED <<genSnap, inflight, lastOp, picked, hist>>
    /\ UNCHANGED <<calendar, clock, now, pc, slotIdx, attempt, started,
                   skippedDone, noItem, restarts>>
    /\ UNCHANGED <<jobs, up, nextId, resp, skipped>>
    /\ UNCHANGED <<interrupted, seen>>
    /\ UNCHANGED <<shortsVars, timedVars, bufferVars, auxVars>>

\* generate_ideas, line 121, on the worker thread of the generate endpoint
\* (main.py, lines 1027-1041): _load_data() while a save of pick_idea has
\* the file open.
GenLoadDuringWrite ==
    /\ up
    /\ writing # NoWrite
    /\ writing.file = "ideas"
    /\ ~genSnap.loaded
    /\ genSnap' = [loaded |-> TRUE, ideas |-> ideas, index |-> shorts_domain_index]
    /\ seen' = [file |-> "ideas", old |-> writing.old, new |-> writing.new,
                read |-> Document("ideas"), by |-> "generate_ideas"]
    /\ lastOp' = "gen_load"
    /\ UNCHANGED <<ideas, shorts_domain_index, inflight, picked, hist>>
    /\ UNCHANGED <<writing, interrupted>>
    /\ UNCHANGED <<schedVars, jobVars, shortsVars, timedVars, bufferVars, busVars, auxVars>>

\* The process dies; a write in progress is cut short and its file stays
\* as it is.
CrashInWrite ==
    /\ up
    /\ restarts < MaxRestarts
    /\ up' = FALSE
    /\ interrupted' = writing
    /\ writing' = NoWrite
    /\ jobs' = [j \in JobIds |-> NoJob]
    /\ tasks' = {}
    /\ resp' = NoResp
    /\ genSnap' = NoSnap
    /\ UNCHANGED <<ideas, shorts_domain_index, inflight, lastOp, picked, hist>>
    /\ UNCHANGED <<schedVars, jobsFile, nextId, skipped, seen>>
    /\ UNCHANGED <<shortsVars, timedVars, bufferVars, busVars, auxVars>>

\* The process starts again: lifespan loads the job store, recovers and
\* saves it (main.py, lines 131-138); the first poll and the first request
\* load the other two files.
RestartReads ==
    /\ ~up
    /\ up' = TRUE
    /\ restarts' = restarts + 1
    /\ jobs' = [j \in JobIds |-> Recover(jobsFile[j])]
    /\ jobsFile' = jobs'
    /\ seen' = IF interrupted = NoWrite THEN seen
               ELSE [file |-> interrupted.file, old |-> interrupted.old,
                     new |-> interrupted.new,
                     read |-> Document(interrupted.file), by |-> "restart"]
    /\ interrupted' = NoWrite
    /\ UNCHANGED bankVars
    /\ UNCHANGED <<enabled, published_slots, calendar, clock, now, pc, slotIdx,
                   attempt, started, skippedDone, noItem>>
    /\ UNCHANGED <<nextId, tasks, resp, skipped, writing>>
    /\ UNCHANGED <<shortsVars, timedVars, bufferVars, busVars, auxVars>>

\* An installation with some ideas in the bank and nothing else stored.
InitDurable ==
    /\ ideas \in CursorStores
    /\ shorts_domain_index \in 0..(NumDomains - 1)
    /\ genSnap = NoSnap
    /\ InitHistory
    /\ SchedIdle
    /\ JobsIdle
    /\ ShortsIdle
    /\ ExtIdle

NextDurable ==
    \/ PickOpensFile
    \/ MarkSlotDoneOpensFile
    \/ ToggleOpensFile
    \/ GenerateVideoOpensFile
    \/ WriteCloses
    \/ GenLoadDuringWrite
    \/ CrashInWrite
    \/ RestartReads

SpecDurable == InitDurable /\ [][NextDurable]_vars

\* ------------------------------------------------- the upcoming slots
\* Minutes of the day at which the schedule is asked for: midnight, one in
\* the morning, around both publish times, noon, the last minute.
AskedAt == {0, 60, 419, 420, 421, 720, 1289, 1290, 1291, 1439}

\* Days on which it is asked for.
AskedOn == {0, 1, 2}

\* America/New_York: daylight time begins on this day, at 02:00 local,
\* when the wall clock goes to 03:00.
DstFrom == 1

\* utcoffset of a local time, in minutes behind UTC.
utcoffset(t) ==
    IF t.day > DstFrom \/ (t.day = DstFrom /\ t.min >= 180) THEN 240 ELSE 300

\* The instant of a local time, in minutes on the UTC scale.
Instant(t) == t.day * 1440 + t.min + utcoffset(t)

\* slot_time.astimezone(UTC).isoformat()
astimezone_utc(t) ==
    [day |-> Instant(t) \div 1440, min |-> Instant(t) % 1440]

\* %I
Hour12(h) == IF h % 12 = 0 THEN 12 ELSE h % 12

\* slot_time.strftime("%Y-%m-%d %I:%M %p EST")
strftime_est(t) ==
    [day |-> t.day, hour |-> Hour12(t.min \div 60), minute |-> t.min % 60,
     pm |-> (t.min \div 60) >= 12]

\* A slot that is not earlier than now counts as upcoming.
Later_OrNow(slot_time, t) ==
    \/ slot_time.day > t.day
    \/ slot_time.day = t.day /\ slot_time.min >= t.min

\* slot_time > now: both carry the tzinfo EST, so the wall-clock readings
\* are compared.
Later(slot_time, t) ==
    \/ slot_time.day > t.day
    \/ slot_time.day = t.day /\ slot_time.min > t.min

\* The dict appended for a slot (lines 77-81).
SlotEntry(slot_time) ==
    [time_est |-> strftime_est(slot_time),
     time_utc |-> astimezone_utc(slot_time),
     day      |-> slot_time.day % 7]

\* The for loop over PUBLISH_TIMES for one date (lines 73-83).
RECURSIVE ForPublishTimes(_, _, _, _, _)
ForPublishTimes(t, count, slots, current_date, i) ==
    IF i > Len(PUBLISH_TIMES) THEN slots
    ELSE LET slot_time == [day |-> current_date, min |-> PUBLISH_TIMES[i]]
         IN  IF Later(slot_time, t)
             THEN LET more == Append(slots, SlotEntry(slot_time))
                  IN  IF Len(more) >= count THEN more
                      ELSE ForPublishTimes(t, count, more, current_date, i + 1)
             ELSE ForPublishTimes(t, count, slots, current_date, i + 1)

\* The while loop (lines 72-84).
RECURSIVE WhileShort(_, _, _, _)
WhileShort(t, count, slots, current_date) ==
    IF Len(slots) < count
    THEN WhileShort(t, count, ForPublishTimes(t, count, slots, current_date, 1),
                    current_date + 1)
    ELSE slots

get_next_publish_slots(t, count) == WhileShort(t, count, <<>>, t.day)

\* GET /api/autopublish/schedule and get_status: the slots are computed
\* from the clock, nothing is stored.
GetSchedule ==
    /\ \E count \in 0..MaxCount, d \in AskedOn, m \in AskedAt :
           LET t == [day |-> d, min |-> m]
           IN  schedule' = [called |-> TRUE, count |-> count, now |-> t,
                            slots |-> get_next_publish_slots(t, count)]
    /\ UNCHANGED <<recorded, health, order, fanout>>
    /\ UNCHANGED <<bankVars, schedVars, jobVars, shortsVars, timedVars>>
    /\ UNCHANGED <<bufferVars, busVars, diskVars>>

InitSlots ==
    /\ ideas = <<>>
    /\ shorts_domain_index = 0
    /\ genSnap = NoSnap
    /\ InitHistory
    /\ SchedIdle
    /\ JobsIdle
    /\ ShortsIdle
    /\ ExtIdle

NextSlots ==
    \/ GetSchedule

SpecSlots == InitSlots /\ [][NextSlots]_vars

\* ------------------------------------------------------- the done-set
\* The k-th slot key of the schedule, counted from the first slot of day 0.
KeyNo(k) == SlotKey((k - 1) \div Len(PUBLISH_TIMES),
                    PUBLISH_TIMES[((k - 1) % Len(PUBLISH_TIMES)) + 1])

\* Lengths of the done-set found in autopublish_state.json: none, and at
\* and just under the limit.
StoredLengths == {0, KeepSlots - 2, KeepSlots - 1, KeepSlots}

\* Keys given to _mark_slot_done: the next slots, and slots recorded before.
MarkedKeys == {KeyNo(k) : k \in {1, KeepSlots, KeepSlots + 1, KeepSlots + 2}}

\* _mark_slot_done (lines 95-103) for one key.
MarkSlotDoneCall ==
    /\ \/ Len(recorded) < MaxMarks
       \/ /\ Len(recorded) >= KeepSlots - 2
          /\ Len(recorded) < KeepSlots + MaxMarks
    /\ \E key \in MarkedKeys :
           /\ published_slots' = MarkSlotDone(published_slots, key)
           /\ recorded' = Append(recorded, key)
    /\ UNCHANGED <<enabled, calendar, clock, now, pc, slotIdx, attempt, started,
                   skippedDone, noItem, restarts>>
    /\ UNCHANGED <<schedule, health, order, fanout>>
    /\ UNCHANGED <<bankVars, jobVars, shortsVars, timedVars>>
    /\ UNCHANGED <<bufferVars, busVars, diskVars>>

\* The done-set as earlier marks left it: the first n slots of the
\* schedule, one mark each.
InitDoneSet ==
    /\ ideas = <<>>
    /\ shorts_domain_index = 0
    /\ genSnap = NoSnap
    /\ InitHistory
    /\ enabled = FALSE
    /\ \E n \in StoredLengths : published_slots = [k \in 1..n |-> KeyNo(k)]
    /\ calendar = <<>>
    /\ clock = [day |-> 0, min |-> Minutes[1]]
    /\ now = [day |-> 0, min |-> Minutes[1]]
    /\ pc = "sleep"
    /\ slotIdx = 1
    /\ attempt = NoAttempt
    /\ started = [k \in SlotKeys |-> 0]
    /\ skippedDone = {}
    /\ noItem = {}
    /\ restarts = 0
    /\ timer = 0
    /\ JobsIdle
    /\ ShortsIdle
    /\ BufferIdle
    /\ BusIdle
    /\ DiskIdle
    /\ schedule = NoCall
    /\ recorded = published_slots
    /\ health = NoCall
    /\ order = <<>>
    /\ fanout = NoFanout

NextDoneSet ==
    \/ MarkSlotDoneCall

SpecDoneSet == InitDoneSet /\ [][NextDoneSet]_vars

\* ------------------------------------------------- claims on the idea bank
Forward(a, b) ==
    \/ a = b
    \/ a = "available" /\ b = "scheduled"
    \/ a = "scheduled" /\ b = "used"

\* C3: every idea's status only ever moves available -> scheduled -> used
\* (never back, never straight from available to used), and pick_idea
\* returns only ideas that were available, under any interleaving of
\* pick_idea, mark_used and generate_ideas.
C3_StatusOnlyMovesForward ==
    [][/\ \A i \in 1..Len(ideas) :
              i <= Len(ideas') => Forward(ideas[i].status, ideas'[i].status)
       /\ (lastOp' = "pick" /\ picked' # 0) =>
              ideas[picked'].status = "available"]_vars

\* C4: when every category holds an available idea, the consecutive picks
\* that follow (up to N of them) return categories c, c+1, ... (mod N),
\* c being the cursor before the first of them.
C4_RoundRobinInCursorOrder ==
    \A k \in 1..Len(hist) :
        hist[k].ne = 0..(NumDomains - 1) =>
            \A j \in k..Len(hist) :
                hist[j].cat = (hist[k].c0 + (j - k)) % NumDomains

C4_Witness ==
    /\ Len(hist) = NumDomains
    /\ hist[1].ne = 0..(NumDomains - 1)
    /\ {hist[k].cat : k \in 1..Len(hist)} = 0..(NumDomains - 1)

\* The first non-empty category at or after cursor c, by its definition.
FirstNonEmpty(data, c) ==
    LET off == CHOOSE o \in 0..(NumDomains - 1) :
                   /\ (c + o) % NumDomains \in NonEmpty(data)
                   /\ \A o2 \in 0..(o - 1) : (c + o2) % NumDomains \notin NonEmpty(data)
    IN  (c + off) % NumDomains

\* C5: when some category holds an available idea, pick_idea returns an
\* available idea of the first such category counted from the cursor,
\* marks exactly that idea scheduled and sets the cursor to
\* (matchedIndex + 1) mod N.
C5_PickFirstNonEmptyCategory ==
    [][(lastOp' = "pick" /\ NonEmpty(ideas) # {}) =>
          LET m == FirstNonEmpty(ideas, shorts_domain_index)
          IN  /\ picked' \in 1..Len(ideas)
              /\ ideas[picked'].status = "available"
              /\ ideas[picked'].domain = m + 1
              /\ ideas' = [ideas EXCEPT ![picked'].status = "scheduled"]
              /\ shorts_domain_index' = (m + 1) % NumDomains]_vars

\* A pick that skipped the empty category under the cursor.
C5_Witness ==
    /\ lastOp = "pick"
    /\ picked # 0
    /\ hist # <<>>
    /\ hist[Len(hist)].cat # hist[Len(hist)].c0 % NumDomains
    /\ hist[Len(hist)].cat \in 0..(NumDomains - 1)
    /\ shorts_domain_index = (hist[Len(hist)].cat + 1) % NumDomains

C7_NoCategoryStarves ==
    Len(hist) = NumDomains =>
        \A x \in 0..(NumDomains - 1) :
            (\A k \in 1..Len(hist) : x \in hist[k].ne) =>
                \E k \in 1..Len(hist) : hist[k].cat = x

\* N consecutive picks with one category empty all along and another one
\* non-empty all along.
C7_Witness ==
    /\ Len(hist) = NumDomains
    /\ \E x \in 0..(NumDomains - 1) : \A k \in 1..Len(hist) : x \in hist[k].ne
    /\ \E y \in 0..(NumDomains - 1) : \A k \in 1..Len(hist) : y \notin hist[k].ne

\* ------------------------------------------- claims on the slot scheduler
\* C1: for every slot key at most one generation-and-publish job is ever
\* started, over any sequence of polls and process restarts, the done-set
\* file being kept.
C1_AtMostOneJobPerSlot ==
    \A k \in SlotKeys : started[k] <= 1

InDoneSet(k) == \E i \in 1..Len(published_slots) : published_slots[i] = k

\* C2: once a slot key is in the done-set no further job is started for
\* it, and a slot check that finds its slot done picks no idea: it leaves
\* every idea's status and the cursor as they are.
C2_DoneSlotIsNotServedAgain ==
    [][/\ \A k \in SlotKeys : InDoneSet(k) => started'[k] = started[k]
       /\ (pc = "slots" /\ InDoneSet(SlotKey(now.day, PUBLISH_TIMES[slotIdx]))) =>
              /\ ideas' = ideas
              /\ shorts_domain_index' = shorts_domain_index
              /\ attempt' = attempt]_vars

\* A second check inside the window found the slot done, one job started.
C2_Witness ==
    \E k \in skippedDone :
        /\ InDoneSet(k)
        /\ started[k] = 1
        /\ Available(ideas) # {}
        /\ enabled

\* ------------------------------------------------ claims on the job store
Allowed(a, b) ==
    \/ a = b
    \/ a = "pending" /\ b = "running"
    \/ a = "running" /\ b = "completed"
    \/ a = "running" /\ b = "failed"
    \/ a = "pending" /\ b = "cancelled"
    \/ a = "failed" /\ b = "pending"

Rejected(op, j) == resp' = [op |-> op, id |-> j, code |-> 400]

\* C8: a job's status only changes pending->running, running->completed,
\* running->failed, pending->cancelled or failed->pending (in the dict and
\* in the file alike); a cancel request on a job that is not pending and a
\* retry request on a job that is not failed are answered with an error
\* and leave the job store as it was.
C8_StateMachineClosure ==
    [][\A j \in JobIds :
          /\ (jobs[j] # NoJob /\ jobs'[j] # NoJob) =>
                 Allowed(jobs[j].status, jobs'[j].status)
          /\ (jobsFile[j] # NoJob /\ jobsFile'[j] # NoJob) =>
                 Allowed(jobsFile[j].status, jobsFile'[j].status)
          /\ (resp'.op = "cancel" /\ resp'.id = j /\ jobs[j] # NoJob
                  /\ jobs[j].status # "pending") =>
                 Rejected("cancel", j) /\ UNCHANGED <<jobs, jobsFile, tasks>>
          /\ (resp'.op = "retry" /\ resp'.id = j /\ jobs[j] # NoJob
                  /\ jobs[j].status # "failed") =>
                 Rejected("retry", j) /\ UNCHANGED <<jobs, jobsFile, tasks>>]_vars

\* A cancel request on a running job was refused and the job still runs.
C8_Witness ==
    \E j \in JobIds :
        /\ resp = [op |-> "cancel", id |-> j, code |-> 400]
        /\ jobs[j] # NoJob
        /\ jobs[j].status = "running"
        /\ jobs[j].progress > 0

\* C9: a cancelled job stays cancelled for as long as its record exists,
\* whatever the queued executor run, a retry or a restart do.
C9_CancelledIsFinal ==
    [][\A j \in JobIds :
          /\ (jobs[j] # NoJob /\ jobs[j].status = "cancelled" /\ jobs'[j] # NoJob) =>
                 jobs'[j].status = "cancelled"
          /\ (jobsFile[j] # NoJob /\ jobsFile[j].status = "cancelled"
                  /\ jobsFile'[j] # NoJob) =>
                 jobsFile'[j].status = "cancelled"]_vars

\* The executor run queued for a job reached it after the cancel, left it
\* alone, and a retry of it was refused.
C9_Witness ==
    \E j \in skipped :
        /\ jobs[j] # NoJob
        /\ jobs[j].status = "cancelled"
        /\ resp = [op |-> "retry", id |-> j, code |-> 400]
        /\ \A t \in tasks : \A i \in t.pos..Len(t.ids) : t.ids[i] # j

\* C10: the startup turns every job stored as running into failed with
\* the interruption error, leaves every other stored job as it is, and
\* writes the result back to the file.
C10_StartupRecovery ==
    [][(~up /\ up') =>
          /\ jobsFile' = jobs'
          /\ \A j \in JobIds :
                IF jobsFile[j] # NoJob /\ jobsFile[j].status = "running"
                THEN /\ jobs'[j].status = "failed"
                     /\ jobs'[j].error = InterruptedError
                ELSE jobs'[j] = jobsFile[j]]_vars

\* After a restart: one job interrupted, another one untouched.
C10_Witness ==
    /\ up
    /\ \E j \in JobIds :
           /\ jobsFile[j] # NoJob
           /\ jobsFile[j].status = "failed"
           /\ jobsFile[j].error = InterruptedError
    /\ \E j \in JobIds :
           /\ jobsFile[j] # NoJob
           /\ jobsFile[j].status = "pending"

\* The slot the poll's loop is at.
CurrentKey == SlotKey(now.day, PUBLISH_TIMES[slotIdx])

\* The loop is at a slot whose window holds `now` and that is not done.
SlotOpen ==
    /\ pc = "slots"
    /\ InWindow(now, PUBLISH_TIMES[slotIdx])
    /\ ~InDoneSet(CurrentKey)

\* This step is the loop's check of the slot it is at.
SlotChecked ==
    /\ pc = "slots"
    /\ restarts' = restarts
    /\ pc' # "slots" \/ slotIdx' # slotIdx

HasFailedEntry(cal, k) ==
    \E i \in 1..Len(cal) : cal[i].slot = k /\ cal[i].status = "failed"

\* C16: when the job of a slot fails, the step that records the failure in
\* the calendar (status failed, with the exception's message) also puts
\* the slot key into the done-set, and no job is started afterwards for a
\* slot that has a failure on record.
C16_FailedSlotIsClosed ==
    [][\A k \in SlotKeys :
          /\ (/\ Len(calendar') > Len(calendar)
              /\ calendar'[Len(calendar')].slot = k
              /\ calendar'[Len(calendar')].status = "failed") =>
                 /\ \E i \in 1..Len(published_slots') : published_slots'[i] = k
                 /\ calendar'[Len(calendar')].error # "none"
                 /\ pc \in {"slots", "job"}
                 /\ pc' \in {"slots", "sleep"}
          /\ HasFailedEntry(calendar, k) =>
                 /\ started'[k] = started[k]
                 /\ HasFailedEntry(calendar', k)]_vars

\* The generator raised for a slot; a later check inside the window found
\* the slot done and started nothing.
C16_Witness ==
    \E k \in skippedDone :
        /\ \E i \in 1..Len(calendar) :
               /\ calendar[i].slot = k
               /\ calendar[i].status = "failed"
               /\ calendar[i].error = "generator error"
        /\ InDoneSet(k)
        /\ started[k] = 1
        /\ pc = "sleep"

\* C17: a check that finds its slot open while the bank holds no available
\* idea leaves the done-set as it is, and a slot that checks have found
\* open without getting an idea, and for which no job was started, is not
\* in the done-set.
C17_OpenSlotWithoutItemStaysOpen ==
    [][/\ (SlotOpen /\ Available(ideas) = {}) =>
              /\ published_slots' = published_slots
              /\ started' = started
       /\ \A k \in noItem' :
              started'[k] = 0 => \A i \in 1..Len(published_slots') :
                                     published_slots'[i] # k]_vars

\* A check got no idea for a slot; a later poll inside the window served
\* the slot and closed it.
C17_Witness ==
    \E k \in noItem :
        /\ started[k] >= 1
        /\ InDoneSet(k)
        /\ pc = "sleep"

C19_PickOnlyWhenEnabledInWindowAndOpen ==
    [][/\ (\E i \in 1..Len(ideas) :
              ideas[i].status = "available" /\ ideas'[i].status = "scheduled") =>
              /\ enabled
              /\ PUBLISH_TIMES[slotIdx] - 15 <= now.min
              /\ now.min <= PUBLISH_TIMES[slotIdx] + 30
              /\ ~InDoneSet(CurrentKey)
       /\ (/\ pc \in {"backfill", "slots"}
           /\ \A s \in 1..Len(PUBLISH_TIMES) :
                  now.min < PUBLISH_TIMES[s] - 15 \/ now.min > PUBLISH_TIMES[s] + 30) =>
              /\ \A i \in 1..Len(ideas) : ideas'[i].status = ideas[i].status
              /\ shorts_domain_index' = shorts_domain_index
              /\ published_slots' = published_slots]_vars

\* ------------------------------------ further claims on the job stores
\* C11: a startup leaves no job record with status running in either
\* persisted job store (jobs_store.json, shorts_jobs_store.json).
C11_NoRunningLeftAfterStartup ==
    [][(~up /\ up') =>
          /\ \A j \in JobIds :
                 jobsFile'[j] # NoJob => jobsFile'[j].status # "running"
          /\ \A j \in ShortIds :
                 /\ shortsFile'[j] # NoJob => shortsFile'[j].status # "running"
                 /\ shorts_jobs'[j] # NoJob => shorts_jobs'[j].status # "running"]_vars

\* C12: while a job is running, no update makes its stored progress
\* smaller than it was (a lower value is refused or clamped).
C12_ProgressNeverDecreases ==
    [][\A j \in JobIds :
          (/\ jobs[j] # NoJob /\ jobs[j].status = "running"
           /\ jobs'[j] # NoJob /\ jobs'[j].status = "running") =>
              /\ jobs'[j].progress >= jobs[j].progress
              /\ jobsFile'[j].progress >= jobsFile[j].progress]_vars

\* C13: every job record has created_at, and its completed_at is null
\* exactly while the job is pending or running.
C13_CompletedAtSetOnTerminal ==
    \A j \in JobIds :
        jobs[j] # NoJob =>
            /\ jobs[j].created_at
            /\ jobs[j].completed_at = FALSE <=>
                   jobs[j].status \in {"pending", "running"}

\* C14: in the dict and in the file, a job's error is non-null exactly
\* when its status is failed.
C14_ErrorIffFailed ==
    /\ \A j \in JobIds :
           jobs[j] # NoJob => (jobs[j].error # "null" <=> jobs[j].status = "failed")
    /\ \A j \in JobIds :
           jobsFile[j] # NoJob =>
               (jobsFile[j].error # "null" <=> jobsFile[j].status = "failed")

\* One job failed by an exception and was retried, its error cleared;
\* another one is failed by restart recovery and carries that error.
C14_Witness ==
    /\ \E j \in JobIds :
           /\ jobs[j] # NoJob
           /\ jobs[j].message = "Queued for retry"
           /\ jobs[j].error = "null"
    /\ \E j \in JobIds :
           /\ jobs[j] # NoJob
           /\ jobs[j].status = "failed"
           /\ jobs[j].error = InterruptedError

\* The pipeline call of job j ends in this step (it returned or raised).
PipelineEnds(j) ==
    /\ up /\ up'
    /\ \E t \in tasks :
           /\ t.phase = "exec"
           /\ t.ids[t.pos] = j
           /\ \A t2 \in tasks' :
                  ~(t2.ids = t.ids /\ t2.pos = t.pos /\ t2.phase = "exec")

\* C15: the step that ends the pipeline call of a job still in the store
\* leaves it completed with progress 100 and a result reference, or failed
\* with the exception's text as error; a job is running only while its
\* pipeline call is under way; and every running job eventually stops
\* being running.
C15_RunningJobsEnd ==
    /\ [][\A j \in JobIds :
             (PipelineEnds(j) /\ jobs[j] # NoJob) =>
                 \/ /\ jobs'[j].status = "completed"
                    /\ jobs'[j].progress = 100
                    /\ jobs'[j].video_path
                    /\ jobs'[j].error = "null"
                 \/ /\ jobs'[j].status = "failed"
                    /\ jobs'[j].error = "exception"]_vars
    /\ [](\A j \in JobIds :
             (up /\ jobs[j] # NoJob /\ jobs[j].status = "running") =>
                 \E t \in tasks : t.phase = "exec" /\ t.ids[t.pos] = j)
    /\ \A j \in JobIds :
           (jobs[j] # NoJob /\ jobs[j].status = "running") ~>
               (jobs[j] = NoJob \/ jobs[j].status \in {"completed", "failed"})

\* One job completed with its result, another one failed by an exception,
\* no pipeline call is left.
C15_Witness ==
    /\ \E j \in JobIds :
           /\ jobs[j] # NoJob
           /\ jobs[j].status = "completed"
           /\ jobs[j].progress = 100
           /\ jobs[j].video_path
    /\ \E j \in JobIds :
           /\ jobs[j] # NoJob
           /\ jobs[j].status = "failed"
           /\ jobs[j].error = "exception"
    /\ tasks = {}

\* ------------------------------------------------ claim on the timing
\* C20: with auto-publish enabled, the process up since before the first
\* window and ideas available, every slot whose window has gone by was
\* attempted: a poll read a `now` inside the window and started the job.
C20_EveryWindowIsPolled ==
    \A s \in 1..Len(PUBLISH_TIMES) :
        clock.min > PUBLISH_TIMES[s] + 30 =>
            started[SlotKey(clock.day, PUBLISH_TIMES[s])] >= 1

\* ------------------------------------ claim on the loop and the pipeline
\* C21: the slot scheduling loop never waits for a generation pipeline
\* call: while the pipeline started by a slot check is in flight, the
\* scheduler task is back in its sleep, from which the next poll starts
\* at the configured interval.
C21_LoopNeverWaitsForPipeline ==
    attempt.running => pc = "sleep"

\* ------------------------------------- claims on the buffer scheduler
\* Generation cycles the step starts, read off the persisted counter.
CyclesStarted == automation'.total_generated - automation.total_generated

\* A step of check_and_publish with the scheduler enabled.
BufferPoll ==
    /\ lfPc = "idle"
    /\ lf_enabled
    /\ lf_enabled' = lf_enabled
    /\ lfPoll'.checked

\* C22: with the threshold of 2 days, a poll of the enabled buffer
\* scheduler starts no generation when the buffer is 2 days or more (so
\* for the committed dates [today+3]) and exactly one cycle when it is
\* less (so for [today+1] and for []); no step starts more than one cycle.
C22_OneCycleIffBufferLow ==
    [][/\ CyclesStarted \in {0, 1}
       /\ BufferPoll =>
            /\ lfPoll'.days >= 2 => CyclesStarted = 0 /\ lfPc' = "idle"
            /\ lfPoll'.days < 2 => CyclesStarted = 1 /\ lfPc' = "generating"
            /\ lfPoll'.query = [ok |-> TRUE, dates |-> {clock.day + 3}]
                   => CyclesStarted = 0
            /\ lfPoll'.query \in {[ok |-> TRUE, dates |-> {clock.day + 1}],
                                  [ok |-> TRUE, dates |-> {}]}
                   => CyclesStarted = 1]_vars

\* One cycle ran on the committed dates [today+1] and published; the next
\* poll found a buffer of 2 days and started nothing.
C22_Witness ==
    /\ automation.total_generated = 1
    /\ last_generated.set
    /\ lfPc = "idle"
    /\ lfPoll.checked
    /\ lfPoll.query.ok
    /\ lfPoll.query.dates = {clock.day + 1, clock.day + 2}
    /\ lfPoll.days = 2

\* C23: the buffer is the distance in days from today to the latest
\* committed date among those of today or later; it is 0 when nothing is
\* committed, when every commitment is in the past and when the query
\* fails; it is never negative.
C23_BufferIsDistanceToLatestFutureDate ==
    lfPoll.checked =>
        LET q == lfPoll.query
            future == IF q.ok THEN {d \in q.dates : d >= clock.day} ELSE {}
        IN  /\ lfPoll.days >= 0
            /\ future = {} => lfPoll.days = 0
            /\ future # {} =>
                   /\ clock.day + lfPoll.days \in future
                   /\ \A d \in future : d <= clock.day + lfPoll.days

\* A poll read a past and a future commitment and computed 2 days.
C23_Witness ==
    /\ lfPoll.checked
    /\ lfPoll.query.ok
    /\ lfPoll.query.dates = {clock.day - 1, clock.day + 2}
    /\ lfPoll.days = 2

\* A poll starts a generation cycle.
CycleStarts == lfPc = "idle" /\ lfPc' = "generating"

\* C24: a generation cycle of the buffer scheduler advances the category,
\* duration-bucket and track cursors by one each, whatever the others
\* hold, once per cycle: the end of the generation, by return or by
\* exception, moves none of them, and neither does a poll that skips.
C24_CursorsAdvanceOncePerCycle ==
    [][/\ CycleStarts =>
            /\ automation'.domain_index = automation.domain_index + 1
            /\ automation'.duration_toggle = automation.duration_toggle + 1
            /\ automation'.music_index = automation.music_index + 1
       /\ ~CycleStarts => automation' = automation]_vars

\* One cycle has run and ended from the cursors 0, 1 and 5.
C24_Witness ==
    /\ lfPc = "idle"
    /\ automation = [domain_index |-> 1, duration_toggle |-> 2,
                     music_index |-> 6, total_generated |-> 1]
    /\ ~last_generated.set

\* C25: every index a rotating collection is read at (the short-form
\* category list, the long-form category list, the duration buckets, the
\* music pool) is within 0..size-1 for the size the collection has at the
\* read, whatever cursor was persisted and whatever the collection's size
\* was when it was saved.
C25_IndexWithinCurrentSize ==
    /\ \A r \in reads : r.idx \in 0..(r.size - 1)
    /\ \A k \in 1..Len(hist) :
           \A idx \in hist[k].reads : idx \in 0..(num_domains - 1)
    /\ hist # <<>> => shorts_domain_index \in 0..(num_domains - 1)

\* A pool was read through a track cursor beyond its size, and pick_idea
\* scanned from a category cursor beyond the number of categories.
C25_Witness ==
    /\ \E r \in reads : r.coll = "music" /\ automation.music_index > r.size + 1
    /\ \E r \in reads : r.coll = "category" /\ automation.domain_index > r.size + 1
    /\ hist # <<>>
    /\ hist[1].c0 >= num_domains

\* ------------------------------------------------ claims on the event bus
\* The observer's queue holds its capacity of notifications.
Full(o) == Len(queue[o]) >= QueueMaxsize

\* The step puts one notification at the end of the observer's queue.
Receives(o) ==
    /\ Len(queue'[o]) = Len(queue[o]) + 1
    /\ SubSeq(queue'[o], 1, Len(queue[o])) = queue[o]

\* C26: every step that adds, changes or removes a job record puts one
\* notification in the queue of every observer registered at that moment
\* (a queue that is full is the case of C27).
C26_EveryMutationIsPublished ==
    [][jobs' # jobs =>
           \A o \in sse_subscribers : Full(o) \/ Receives(o)]_vars

\* C27: a notification published while a queue is full is dropped for
\* that queue only: the queue keeps its contents and stays registered, every
\* other registered queue with room receives the notification, and the job
\* store holds the mutation the notification reports.
C27_FullQueueDropsForItselfOnly ==
    [][\A o \in sse_subscribers :
           Full(o) /\ (jobs' # jobs \/ \E p \in sse_subscribers : Receives(p)) =>
               /\ queue'[o] = queue[o]
               /\ o \in sse_subscribers'
               /\ \A p \in sse_subscribers :
                      Receives(p) =>
                          LET m == queue'[p][Len(queue'[p])]
                          IN  /\ \A r \in sse_subscribers :
                                     ~Full(r) =>
                                         /\ Receives(r)
                                         /\ queue'[r][Len(queue'[r])] = m
                              /\ m.event = "job_update" => jobs'[m.id] = m.data
                              /\ m.event = "job_deleted" => jobs'[m.id] = NoJob]_vars

\* Observer 1 holds a full queue and was denied a notification that
\* observer 2 has in its queue.
C27_Witness ==
    /\ {1, 2} \subseteq sse_subscribers
    /\ Full(1)
    /\ stream[1].lost
    /\ ~stream[2].lost
    /\ queue[2] # <<>>
    /\ \A i \in 1..Len(queue[1]) : queue[1][i] # queue[2][Len(queue[2])]
    /\ queue[2][Len(queue[2])].event = "job_update"
    /\ jobs[queue[2][Len(queue[2])].id] = queue[2][Len(queue[2])].data

\* The job list an observer ends with once the queued events are sent.
RECURSIVE ApplyAll(_, _)
ApplyAll(view, msgs) ==
    IF msgs = <<>> THEN view
    ELSE ApplyAll(Apply(view, Head(msgs)), Tail(msgs))

\* C28: an observer's first event is the snapshot, and with every event
\* queued for it since, it puts together the current job list, as long as
\* no notification was dropped for it.
C28_SnapshotPlusStreamIsCurrent ==
    \A o \in Observers :
        stream[o].state = "streaming" /\ ~stream[o].lost =>
            ApplyAll(stream[o].view, queue[o]) = jobs

\* -------------------------------------------- claims on the shared stores
\* C29: a write to the idea store made while generate_ideas is between its
\* read and its write survives that write: the save of generate_ideas
\* leaves the cursor and every stored idea as the store held them and only
\* appends.
C29_GenerationKeepsConcurrentWrites ==
    [][(genSnap.loaded /\ ~genSnap'.loaded) =>
           /\ shorts_domain_index' = shorts_domain_index
           /\ Len(ideas') >= Len(ideas)
           /\ \A i \in 1..Len(ideas) : ideas'[i] = ideas[i]]_vars


\* C30: a load that meets a file which a write had open, whether during
\* the write or at the restart after a crash that cut the write short,
\* reads the complete previous document or the complete new one.
C30_ReadBackIsOldOrNew ==
    seen # NoWrite => seen.read \in {seen.old, seen.new}

\* ------------------------------------------- claims on the upcoming slots
\* The instant a local-form timestamp names, read in its own zone.
InstantOfLocal(e) ==
    Instant([day |-> e.day,
             min |-> ((e.hour % 12) + (IF e.pm THEN 12 ELSE 0)) * 60 + e.minute])

\* The instant a UTC-form timestamp names.
InstantOfUtc(u) == u.day * 1440 + u.min

\* The configured slots of the days the model looks at.
ConfiguredSlots ==
    {[day |-> d, min |-> PUBLISH_TIMES[i]] :
        d \in 0..(2 + MaxCount), i \in 1..Len(PUBLISH_TIMES)}

C32_DoneSetIsTheLastSixty ==
    /\ Len(published_slots) <= KeepSlots
    /\ Len(published_slots) = IF Len(recorded) <= KeepSlots THEN Len(recorded)
                              ELSE KeepSlots
    /\ \A i \in 1..Len(published_slots) :
           published_slots[i] =
               recorded[Len(recorded) - Len(published_slots) + i]
    /\ Len(recorded) > 0 =>
           IsSlotDone(published_slots, recorded[Len(recorded)])

\* A full done-set took another key: the oldest key is gone, the new one
\* is the last of sixty.
C32_Witness ==
    /\ Len(recorded) = KeepSlots + 1
    /\ Len(published_slots) = KeepSlots
    /\ published_slots[KeepSlots] = KeyNo(KeepSlots + 1)
    /\ published_slots[1] = KeyNo(2)
    /\ ~IsSlotDone(published_slots, KeyNo(1))

\* ----------------------------------------- claims on the slot's attempt
\* C33: when the generator returned and the upload raised, the step that
\* marks the idea used sets the attempt's calendar entry to scheduled, adds
\* no further entry and records the slot in the done-set.
C33_UploadFailureEndsScheduled ==
    [][(/\ pc = "job"
        /\ attempt.running
        /\ ideas[attempt.idea].status # "used"
        /\ ideas'[attempt.idea].status = "used") =>
           /\ calendar'[attempt.entry].status = "scheduled"
           /\ Len(calendar') = Len(calendar)
           /\ IsSlotDone(published_slots', attempt.slot)]_vars

\* The calendar entries written for a slot key.
EntriesOf(k) == {i \in 1..Len(calendar) : calendar[i].slot = k}

\* C34: every attempt made for a slot leaves exactly one calendar entry,
\* and an entry is in generating only while its attempt is running.
C34_OneEntryPerAttempt ==
    /\ \A k \in SlotKeys : Cardinality(EntriesOf(k)) = started[k]
    /\ \A i \in 1..Len(calendar) :
           calendar[i].status = "generating" =>
               attempt.running /\ attempt.entry = i


\* C35: an idea picked for an attempt is, at some time after the attempt
\* has ended, used or available again.
C35_ScheduledIdeaIsReleased ==
    \A i \in 1..SchedIdeas :
        (attempt.running /\ attempt.idea = i) ~>
            (/\ ~(attempt.running /\ attempt.idea = i)
             /\ i <= Len(ideas)
             /\ ideas[i].status \in {"used", "available"})

\* ------------------------------------------------ claim on pending jobs
\* C36: every job that is pending is, at some later time in a running
\* process, started, cancelled or gone from the store; also when the
\* process stopped and was started again in between.
C36_PendingJobsAreStarted ==
    \A j \in JobIds :
        (up /\ jobs[j] # NoJob /\ jobs[j].status = "pending") ~>
            (up /\ (jobs[j] = NoJob \/ jobs[j].status # "pending"))

\* ------------------------------------------- claim on the health check
\* C38: a health check that finds the buffer scheduler disabled and reports
\* the action auto_enabled leaves the stored enabled flag true.
C38_AutoEnabledMeansEnabled ==
    [][(/\ ~lf_enabled
        /\ health' # health
        /\ health'.action = "auto_enabled") => lf_enabled']_vars

\* --------------------------------------------------- claim on the fan-out
\* C37: when the loop of update_job on the worker thread ends, the
\* notification was offered to the queue of every observer that was
\* registered from the start of the loop to its end.
C37_NoRegisteredChannelIsSkipped ==
    [][(fanout.running /\ ~fanout'.running) =>
           fanout.stayed \subseteq fanout.got]_vars

\* ------------------------------------------ claim on the enabled flag
\* C39: while auto-publish is disabled, no step of a slot check stores
\* ideas, picks, starts a job, writes a calendar entry or changes the
\* done-set or the cursor; a toggle changes the enabled flag and nothing
\* else that is stored; a step that changes the done-set leaves the enabled
\* flag as it is.
C39_DisabledCheckChangesNothing ==
    [][/\ (~enabled /\ pc \in {"sleep", "backfill", "slots"}) =>
              UNCHANGED <<ideas, shorts_domain_index, published_slots,
                          calendar, started, attempt>>
       /\ enabled' # enabled =>
              UNCHANGED <<ideas, shorts_domain_index, published_slots, calendar>>
       /\ published_slots' # published_slots => enabled' = enabled]_vars

====
